---- MODULE Spec2Model ----
(***************************************************************************)
(* The ingestion pipeline of logbook-service: Intake (API Lambda), Split   *)
(* (S3-event Lambda) and Analyze (SQS Lambda) acting on one upload batch,  *)
(* its upload_pages rows, the object store, the Analyze queue and the      *)
(* maintenance_entries table.                                              *)
(*                                                                         *)
(* Every database, object-store and queue call of the handlers may fail;   *)
(* `faults` is the number of failures the infrastructure may still inject  *)
(* in the behaviour.  A handler is split into several steps exactly where  *)
(* another invocation can observe the rows it has written so far.          *)
(***************************************************************************)
EXTENDS Integers, Sequences, FiniteSets, TLC

\* ---------------------------------------------------------------- bounds
MaxPages == 2
MaxSlices == 2
MaxFaults == 1
MaxAnalyzeFaults == 3
MaxUploadEvents == 2
MaxPageEvents == 1
MaxStrLen == 1
MaxParts == 1
MaxFiles == 2
MaxBands == 3
MaxEntries == 2
MaxIssues == 2
MaxNameLen == 3
MaxRow == 5
MaxRegions == 3
MaxCallers == 2
MaxCalls == 3
MaxSecrets == 2

\* ------------------------------------------------------ program constants
MaxReceiveCount == 3
ReservedConcurrency == 5

Pages == 1..MaxPages
SliceIdx == 1..MaxSlices
MaxMsgs == 1 + MaxPageEvents
Slot == Pages \X (1..MaxMsgs)

TerminalBatch == {"completed", "completed_with_errors", "failed"}
TerminalPage == {"completed", "skipped", "failed"}
DonePage == {"completed", "skipped"}

\* What the extraction model returns for one slice: a dated entry, an entry
\* without a date, a transport error, an empty string, or text that is not JSON.
GeminiOutcome == {"ok", "nodate", "error", "empty", "unparseable"}

VARIABLES
    req,        \* the upload request: [type, n]; for a pdf n is the rasterized page count
    slicesOf,   \* slicesOf[p]: how many strips the slicer returns for page p's image
    intake,     \* the Intake invocation: [pc, i]
    batch,      \* the upload_batches row: [status, page_count]
    pages,      \* pages[p]: extraction_status of the upload_pages row, "absent" if none
    rows,       \* rows[p][s]: maintenance_entries rows inserted for the entry of slice s of page p
    objUpload,  \* the PDF is stored under uploads/
    pageObj,    \* pageObj[p]: a page image is stored under pages/
    evUpload,   \* upload events handed to Split so far
    evPage,     \* evPage[p]: page-arrival events handed to Split so far
    split,      \* the PDF-path invocation of Split: [pc, i, ret, marked]
    msgs,       \* msgs[<<p, k>>]: the k-th Analyze message sent for page p
    faults,     \* infrastructure failures that may still be injected
    lastRun,    \* the inputs of the Analyze invocation that last left processPage
    arrival,    \* the last page-arrival invocation of Split: [page, rows (the page
                \* rows there were to find), sent, ret ("ok" or the failing step)]
    ent,        \* one extracted entry on its way through checkAircraftIdentity and
                \* saveEntry: [pc, in (as extracted), entry (as it is now), expected,
                \* err (of saveEntry), embOk (the embedding request and upsert succeeded)]
    tabs,       \* the rows saveEntry has written for that entry, per table
    up,         \* one POST /uploads request on its way through handleUpload:
                \* [pc, req (the body), db (the rows written), resp, fail]
    sl,         \* one call of the slicer: [pc, img, opts, regions (what is left
                \* after the small ones were absorbed), slices, err]
    pg,         \* one page message on its way through processPage: [pc, key,
                \* img, err, calls (to the extraction model), outs, status]
    vf,         \* one slice on its way through the extract-and-verify loop:
                \* [pc, claude (a preferred verifier is configured), attempt,
                \* extractCalls, prompts, entries, qa (the last verification
                \* round), verdicts (of that round), verified]
    rp,         \* one pair of issue lists given to buildRetryPrompt: [pc, a, b,
                \* promptA, promptB]
    nz,         \* one pair of strings given to normalize and fuzzyMatch: [pc, a,
                \* b, once, twice, ab, ba]
    rg,         \* one region list given to absorbSmallRegions or mergeRegions:
                \* [pc, regions, min (the minimum height or gap), out]
    sc          \* a secretsProvider and its callers: [pc, cache, calls (to the
                \* secret store, per ARN), failed (those of them that failed),
                \* succeeded (ARNs a call has returned a value for), started
                \* (GetSecret calls so far), overlap (two calls were in progress
                \* at once), caller (per goroutine: [pc, arn, late (the call
                \* started after one for its ARN succeeded), upstream (calls
                \* it made to the secret store), val, ret])]

vars == <<req, slicesOf, intake, batch, pages, rows, objUpload, pageObj,
          evUpload, evPage, split, msgs, faults, lastRun, arrival, ent, tabs, up, sl,
          pg,
          vf, rp, nz, rg, sc>>

\* The pipeline's variables, which the functions exercised on their own leave alone.
pipeVars == <<req, slicesOf, intake, batch, pages, rows, objUpload, pageObj,
              evUpload, evPage, split, msgs, faults, lastRun, arrival>>

\* The variables of the functions exercised on their own, which the pipeline
\* (where each entry is abstracted to its rows count) leaves alone.
libVars == <<ent, tabs, up, sl, pg, vf, rp, nz, rg, sc>>

\* n infrastructure calls fail in this step.
Fail(n) == n <= faults /\ faults' = faults - n

\* The failures a call contributes: none if it succeeded.
Bad(ok) == IF ok THEN 0 ELSE 1

\* No Analyze invocation has returned since the last one started.
NoRun == [page |-> 0, slot |-> <<0, 0>>, rc |-> 0, err |-> "", outs |-> <<>>,
          insFail |-> {}, markOk |-> FALSE, before |-> <<>>, saved |-> <<>>]

\* Split has handled no page arrival yet.
NoArrival == [page |-> 0, rows |-> 0, sent |-> FALSE, ret |-> "none"]

FreeMsg == [st |-> "free", rc |-> 0, write |-> ""]

\* No entry is being processed on its own; no row written.
NoEntry == [pc |-> "none"]
NoTables == [entries |-> <<>>, parts |-> <<>>, ads |-> <<>>, inspections |-> <<>>,
             embeddings |-> <<>>]
NoUpload == [pc |-> "none"]
NoSlicing == [pc |-> "none"]
NoPage == [pc |-> "none"]
NoVerify == [pc |-> "none"]
NoPrompt == [pc |-> "none"]
NoStrings == [pc |-> "none"]
NoRegions == [pc |-> "none"]
NoSecrets == [pc |-> "none"]

InitCommon ==
    /\ intake = [pc |-> "start", i |-> 0]
    /\ batch = [status |-> "none", page_count |-> <<>>]
    /\ pages = [p \in Pages |-> "absent"]
    /\ rows = [p \in Pages |-> [s \in SliceIdx |-> 0]]
    /\ objUpload = FALSE
    /\ pageObj = [p \in Pages |-> FALSE]
    /\ evUpload = 0
    /\ evPage = [p \in Pages |-> 0]
    /\ split = [pc |-> "idle", i |-> 0, ret |-> "none", marked |-> FALSE]
    /\ msgs = [m \in Slot |-> FreeMsg]
    /\ lastRun = NoRun
    /\ arrival = NoArrival

\* The functions exercised on their own are not running.
InitLib ==
    /\ ent = NoEntry
    /\ tabs = NoTables
    /\ up = NoUpload
    /\ sl = NoSlicing
    /\ pg = NoPage
    /\ vf = NoVerify
    /\ rp = NoPrompt
    /\ nz = NoStrings
    /\ rg = NoRegions
    /\ sc = NoSecrets

Init ==
    /\ req \in [type : {"pdf", "multi_image"}, n : Pages]
    /\ slicesOf = [p \in Pages |-> 1]
    /\ faults = MaxFaults
    /\ InitCommon
    /\ InitLib

\* ------------------------------------------------------------------ Intake

\* POST /uploads with one PDF: insert the batch row, presign the PUT URL.
apiHandlePDFUpload ==
    /\ intake.pc = "start"
    /\ req.type = "pdf"
    /\ \E out \in {"ok", "insert batch", "presign"} :
        /\ Fail(Bad(out = "ok"))
        /\ batch' = IF out = "insert batch" THEN batch
                     ELSE [status |-> "pending", page_count |-> <<>>]
        /\ intake' = [pc |-> IF out = "ok" THEN "returned" ELSE "error", i |-> 0]
    /\ UNCHANGED <<libVars, req, slicesOf, pages, rows, objUpload, pageObj, evUpload,
                   evPage, split, msgs, lastRun, arrival>>

\* POST /uploads with image files: the batch row is inserted with page_count
\* already set to the number of files.
handleMultiImageUpload_InsertBatch ==
    /\ intake.pc = "start"
    /\ req.type = "multi_image"
    /\ \E ok \in BOOLEAN :
        /\ Fail(Bad(ok))
        /\ batch' = IF ok THEN [status |-> "pending", page_count |-> <<req.n>>]
                     ELSE batch
        /\ intake' = IF ok THEN [pc |-> "pages", i |-> 1]
                      ELSE [pc |-> "error", i |-> 0]
    /\ UNCHANGED <<libVars, req, slicesOf, pages, rows, objUpload, pageObj, evUpload,
                   evPage, split, msgs, lastRun, arrival>>

\* One turn of the loop over the files: insert the page row, presign its URL.
handleMultiImageUpload_InsertPage ==
    /\ intake.pc = "pages"
    /\ \E out \in {"ok", "insert page", "presign"} :
        /\ Fail(Bad(out = "ok"))
        /\ pages' = IF out = "insert page" THEN pages
                     ELSE [pages EXCEPT ![intake.i] = "pending"]
        /\ intake' = IF out # "ok" THEN [pc |-> "error", i |-> intake.i]
                      ELSE IF intake.i = req.n THEN [pc |-> "returned", i |-> intake.i]
                      ELSE [pc |-> "pages", i |-> intake.i + 1]
    /\ UNCHANGED <<libVars, req, slicesOf, batch, rows, objUpload, pageObj, evUpload,
                   evPage, split, msgs, lastRun, arrival>>

\* The client PUTs the PDF to the presigned uploads/ URL of the response.
ClientPutPDF ==
    /\ intake.pc = "returned"
    /\ req.type = "pdf"
    /\ ~objUpload
    /\ objUpload' = TRUE
    /\ UNCHANGED <<libVars, req, slicesOf, intake, batch, pages, rows, pageObj, evUpload,
                   evPage, split, msgs, faults, lastRun, arrival>>

\* The client PUTs one page image to its presigned pages/ URL.
ClientPutPage(p) ==
    /\ intake.pc = "returned"
    /\ req.type = "multi_image"
    /\ p <= req.n
    /\ ~pageObj[p]
    /\ pageObj' = [pageObj EXCEPT ![p] = TRUE]
    /\ UNCHANGED <<libVars, req, slicesOf, intake, batch, pages, rows, objUpload, evUpload,
                   evPage, split, msgs, faults, lastRun, arrival>>

\* ------------------------------------------------------------------- Split

\* UPDATE upload_batches SET processing_status = 'failed'; the error of the
\* statement is discarded, so a failing statement leaves the row as it was.
markFailed(b, dbOk) ==
    IF dbOk THEN [b EXCEPT !.status = "failed"] ELSE b

HasFree(ms, p) == \E k \in 1..MaxMsgs : ms[<<p, k>>].st = "free"

FirstFree(ms, p) ==
    CHOOSE k \in 1..MaxMsgs :
        /\ ms[<<p, k>>].st = "free"
        /\ \A j \in 1..(k - 1) : ms[<<p, j>>].st # "free"

\* sqs.SendMessage of {uploadId, pageId, pageNumber, s3Key} for page p.
sendAnalyzeMessage(ms, p) ==
    [ms EXCEPT ![<<p, FirstFree(ms, p)>>] = [st |-> "queued", rc |-> 0, write |-> ""]]

\* Messages sent for page p so far (a slot is never reused).
Sent(p) == Cardinality({k \in 1..MaxMsgs : msgs[<<p, k>>].st # "free"})

SplitReturn(ret, marked) == [pc |-> "idle", i |-> 0, ret |-> ret, marked |-> marked]

\* Split, uploads/ prefix, first statement: the batch is set to processing
\* whatever its current status is.  The event invokes Split asynchronously,
\* so an invocation that returned an error is retried with the same event.
handlePDFUpload_MarkProcessing ==
    /\ objUpload
    /\ split.pc = "idle"
    /\ evUpload < MaxUploadEvents
    /\ evUpload = 0 \/ split.ret = "error"
    /\ evUpload' = evUpload + 1
    /\ \E ok \in BOOLEAN :
        /\ Fail(Bad(ok))
        /\ batch' = IF ok THEN [batch EXCEPT !.status = "processing"] ELSE batch
        /\ split' = IF ok THEN [pc |-> "download", i |-> 0, ret |-> "none", marked |-> FALSE]
                    ELSE SplitReturn("error", FALSE)
    /\ UNCHANGED <<libVars, req, slicesOf, intake, pages, rows, objUpload, pageObj, evPage,
                   msgs, lastRun, arrival>>

\* Download the object, rasterize it and PUT every page image under pages/.
\* A failure after k page images were stored marks the batch failed and returns.
handlePDFUpload_Rasterize ==
    /\ split.pc = "download"
    /\ \E out \in {"ok", "download file", "split"}, k \in 0..(req.n - 1), markOk \in BOOLEAN :
        /\ out = "download file" => k = 0
        /\ out = "ok" => (k = 0 /\ markOk)
        /\ Fail(Bad(out = "ok") + Bad(markOk))
        /\ pageObj' = [p \in Pages |-> pageObj[p] \/ p <= (IF out = "ok" THEN req.n ELSE k)]
        /\ batch' = IF out = "ok" THEN batch ELSE markFailed(batch, markOk)
        /\ split' = IF out = "ok" THEN [split EXCEPT !.pc = "count"]
                    ELSE SplitReturn("error", TRUE)
    /\ UNCHANGED <<libVars, req, slicesOf, intake, pages, rows, objUpload, evUpload, evPage,
                   msgs, lastRun, arrival>>

\* UPDATE upload_batches SET page_count = len(pageKeys).
handlePDFUpload_PageCount ==
    /\ split.pc = "count"
    /\ \E ok \in BOOLEAN :
        /\ Fail(Bad(ok))
        /\ batch' = IF ok THEN [batch EXCEPT !.page_count = <<req.n>>] ELSE batch
        /\ split' = IF ok THEN [split EXCEPT !.pc = "insert", !.i = 1]
                    ELSE SplitReturn("error", split.marked)
    /\ UNCHANGED <<libVars, req, slicesOf, intake, pages, rows, objUpload, pageObj, evUpload,
                   evPage, msgs, lastRun, arrival>>

\* One turn of the loop over pageKeys: insert the page row, send its message.
\* The insert also fails when the row exists: UNIQUE(document_id, page_number).
handlePDFUpload_InsertPage ==
    /\ split.pc = "insert"
    /\ LET p == split.i
           exists == pages[p] # "absent"
       IN \E out \in {"ok", "insert page", "queue page"} :
        /\ exists => out = "insert page"
        /\ Fail(IF exists THEN 0 ELSE Bad(out = "ok"))
        /\ pages' = IF out = "insert page" THEN pages ELSE [pages EXCEPT ![p] = "pending"]
        /\ out = "ok" => HasFree(msgs, p)
        /\ msgs' = IF out = "ok" THEN sendAnalyzeMessage(msgs, p) ELSE msgs
        /\ split' = IF out # "ok" THEN SplitReturn("error", split.marked)
                    ELSE IF p = req.n THEN SplitReturn("ok", split.marked)
                    ELSE [split EXCEPT !.i = p + 1]
    /\ UNCHANGED <<libVars, req, slicesOf, intake, batch, rows, objUpload, pageObj, evUpload,
                   evPage, lastRun, arrival>>

\* A handler that goes on to the batch and the queue whether or not the page
\* row was found (deviation used to show that C34 depends on the early return).
pageFound_Always(queryOk, status) == queryOk

\* The lookup of the page row succeeded and returned a row.
pageFound(queryOk, status) == queryOk /\ status # "absent"

\* Split, pages/ prefix: look the page row up; without one, skip; otherwise set
\* the batch to processing if it is pending and send the page's message.
handlePageArrival(p) ==
    /\ pageObj[p]
    /\ evPage[p] < MaxPageEvents
    /\ evPage' = [evPage EXCEPT ![p] = @ + 1]
    /\ \E out \in {"ok", "query page", "queue page"}, updOk \in BOOLEAN :
        LET found == pageFound(out # "query page", pages[p]) IN
        /\ ~found => (updOk /\ out # "queue page")
        /\ Fail(Bad(out = "ok") + Bad(updOk))
        /\ batch' = IF found /\ updOk /\ batch.status = "pending"
                    THEN [batch EXCEPT !.status = "processing"] ELSE batch
        /\ (found /\ out = "ok") => HasFree(msgs, p)
        /\ msgs' = IF found /\ out = "ok" THEN sendAnalyzeMessage(msgs, p) ELSE msgs
        /\ arrival' = [page |-> p,
                       rows |-> IF pages[p] = "absent" THEN 0 ELSE 1,
                       sent |-> found /\ out = "ok",
                       ret |-> IF ~found /\ out # "query page" THEN "ok" ELSE out]
    /\ UNCHANGED <<libVars, req, slicesOf, intake, pages, rows, objUpload, pageObj, evUpload,
                   split, lastRun>>

\* ----------------------------------------------------------------- Analyze

PageOf(m) == m[1]

InFlight == {m \in Slot : msgs[m].st \in {"running", "marked", "counted"}}

\* A Handle that returns the error without touching the page row (deviation
\* used to show that C9 depends on markPageFailed).
markPageFailed_Skipped(pgs, p, dbOk) == pgs

\* UPDATE upload_pages SET extraction_status = 'failed'; the error of the
\* statement is discarded.
markPageFailed(pgs, p, dbOk) ==
    IF dbOk THEN [pgs EXCEPT ![p] = "failed"] ELSE pgs

\* The queue after Handle returned an error for a message received rc times:
\* the message becomes visible again, or moves to the dead-letter queue once
\* it has been received maxReceiveCount times.
Redrive(rc) == IF rc >= MaxReceiveCount THEN "dlq" ELSE "queued"

\* A loop that stops at the first slice the model fails on (deviation used to
\* show that C10 depends on the `continue` statements of the loop).
RECURSIVE extractSlices_Break(_, _, _, _)
extractSlices_Break(outs, n, i, acc) ==
    IF i > n THEN acc
    ELSE IF outs[i] \in {"error", "empty", "unparseable"}
    THEN [acc EXCEPT !.calls = @ + 1]
    ELSE extractSlices_Break(outs, n, i + 1,
                             [calls |-> acc.calls + 1, got |-> acc.got \cup {i}])

\* The loop over the slices: a transport error, an empty response and an
\* unparseable response each `continue`; any other response appends its entries.
RECURSIVE extractSlices(_, _, _, _)
extractSlices(outs, n, i, acc) ==
    IF i > n THEN acc
    ELSE IF outs[i] \in {"error", "empty", "unparseable"}
    THEN extractSlices(outs, n, i + 1, [acc EXCEPT !.calls = @ + 1])
    ELSE extractSlices(outs, n, i + 1,
                       [calls |-> acc.calls + 1, got |-> acc.got \cup {i}])

NoEntries == [calls |-> 0, got |-> {}]

\* The loop over the entries, were it to end at the first insert that fails.
RECURSIVE savedOrder_Return(_, _, _, _)
savedOrder_Return(outs, got, insFail, i) ==
    IF i > Len(outs) THEN <<>>
    ELSE IF i \in got /\ outs[i] = "ok" /\ i \in insFail THEN <<>>
    ELSE (IF i \in got /\ outs[i] = "ok" THEN <<i>> ELSE <<>>)
         \o savedOrder_Return(outs, got, insFail, i + 1)

\* The loop over the entries in extraction order, from entry i on: the
\* entries whose maintenance_entries row is inserted, in the order of the
\* inserts. An entry without a date is skipped; a failing insert is logged
\* and the loop goes on.
RECURSIVE savedOrder(_, _, _, _)
savedOrder(outs, got, insFail, i) ==
    IF i > Len(outs) THEN <<>>
    ELSE (IF i \in got /\ outs[i] = "ok" /\ i \notin insFail THEN <<i>> ELSE <<>>)
         \o savedOrder(outs, got, insFail, i + 1)

\* The rows of the page after the loop over the entries.
saveEntries(r, outs, got, insFail) ==
    LET saved == savedOrder(outs, got, insFail, 1)
    IN [s \in SliceIdx |->
          IF \E k \in DOMAIN saved : saved[k] = s THEN r[s] + 1 ELSE r[s]]

\* The status checkBatchCompletion would write if it looked at the done pages
\* only.
completionStatus_DoneOnly(total, done, failed) ==
    IF total > 0 /\ done + failed = total
    THEN (IF done = 0 THEN "failed" ELSE "completed")
    ELSE ""

\* The status checkBatchCompletion writes for the counts it read, "" for none.
completionStatus(total, done, failed) ==
    IF total > 0 /\ done + failed = total
    THEN (IF failed = 0 THEN "completed"
          ELSE IF done = 0 THEN "failed"
          ELSE "completed_with_errors")
    ELSE ""

CountTotal == Cardinality({p \in Pages : pages[p] # "absent"})
CountDone == Cardinality({p \in Pages : pages[p] \in DonePage})
CountFailed == Cardinality({p \in Pages : pages[p] = "failed"})

\* Handle receives a message and processPage marks the page processing. If
\* that statement fails (~ok), Handle marks the page failed and returns the error.
Handle_Receive(m, ok, markOk) ==
    /\ msgs[m].st = "queued"
    /\ Cardinality(InFlight) < ReservedConcurrency
    /\ ok => markOk
    /\ Fail(Bad(ok) + Bad(markOk))
    /\ LET p == PageOf(m)
           rc == msgs[m].rc + 1
       IN /\ pages' = IF ok THEN [pages EXCEPT ![p] = "processing"]
                      ELSE markPageFailed(pages, p, markOk)
          /\ msgs' = [msgs EXCEPT ![m] =
                        IF ok THEN [st |-> "running", rc |-> rc, write |-> ""]
                        ELSE [st |-> Redrive(rc), rc |-> rc, write |-> ""]]
    /\ UNCHANGED <<libVars, req, slicesOf, intake, batch, rows, objUpload, pageObj, evUpload,
                   evPage, split>>

PageErrors == {"download image", "read image", "get gemini client",
               "store extraction", "get aircraft", "mark complete"}

\* The slices are extracted unless processPage fails before the loop.
Sliced(err) == err \notin {"download image", "read image", "get gemini client"}

\* The entries are saved unless processPage fails before the loop over them.
Saved(err) == err \in {"", "mark complete"}

Extraction(p, err, outs) ==
    IF Sliced(err) THEN extractSlices(outs, slicesOf[p], 1, NoEntries) ELSE NoEntries

\* processPage from the download to the statement that marks the page
\* completed. outs are the model's responses, insFail the entries whose insert
\* fails. An error (err # "") leaves through Handle, which marks the page
\* failed and returns the error.
processPage(m, err, outs, insFail, markOk) ==
    /\ msgs[m].st = "running"
    /\ LET p == PageOf(m)
           rc == msgs[m].rc
           acc == Extraction(p, err, outs)
       IN /\ ~Sliced(err) => \A s \in DOMAIN outs : outs[s] = "ok"
          /\ err = "" => markOk
          /\ insFail \subseteq (IF Saved(err) THEN {s \in acc.got : outs[s] = "ok"} ELSE {})
          /\ Fail(Bad(err = "") + Bad(markOk) + Cardinality(insFail))
          /\ rows' = IF Saved(err)
                     THEN [rows EXCEPT ![p] = saveEntries(rows[p], outs, acc.got, insFail)]
                     ELSE rows
          /\ pages' = IF err = "" THEN [pages EXCEPT ![p] = "completed"]
                      ELSE markPageFailed(pages, p, markOk)
          /\ msgs' = [msgs EXCEPT ![m] =
                        IF err = "" THEN [st |-> "marked", rc |-> rc, write |-> ""]
                        ELSE [st |-> Redrive(rc), rc |-> rc, write |-> ""]]
    /\ UNCHANGED <<libVars, req, slicesOf, intake, batch, objUpload, pageObj, evUpload,
                   evPage, split>>

\* checkBatchCompletion, the count query. A failing query, a result without
\* a row, or counts that do not add up, end the invocation with success: the
\* message is deleted.
checkBatchCompletion_Count(m) ==
    /\ msgs[m].st = "marked"
    /\ \E res \in {"row", "error", "empty"} :
        /\ Fail(Bad(res = "row"))
        /\ LET status == IF res = "row"
                         THEN completionStatus(CountTotal, CountDone, CountFailed)
                         ELSE ""
           IN msgs' = [msgs EXCEPT ![m] =
                         IF status = "" THEN [st |-> "deleted", rc |-> @.rc, write |-> ""]
                         ELSE [st |-> "counted", rc |-> @.rc, write |-> status]]
    /\ UNCHANGED <<libVars, req, slicesOf, intake, batch, pages, rows, objUpload, pageObj,
                   evUpload, evPage, split, lastRun, arrival>>

\* checkBatchCompletion, the update of the batch with the status computed from
\* the counts read before; its error is discarded. Handle returns nil.
checkBatchCompletion_Write(m) ==
    /\ msgs[m].st = "counted"
    /\ \E ok \in BOOLEAN :
        /\ Fail(Bad(ok))
        /\ batch' = IF ok THEN [batch EXCEPT !.status = msgs[m].write] ELSE batch
    /\ msgs' = [msgs EXCEPT ![m] = [st |-> "deleted", rc |-> @.rc, write |-> ""]]
    /\ UNCHANGED <<libVars, req, slicesOf, intake, pages, rows, objUpload, pageObj, evUpload,
                   evPage, split, lastRun, arrival>>

\* ------------------------------------------------------------ specification

\* The model's responses for the slices of the page of message m.
Inputs(m) == [1..slicesOf[PageOf(m)] -> GeminiOutcome]

\* The messages an invocation is processing / may receive.
Running == {m \in Slot : msgs[m].st = "running"}
Queued == {m \in Slot : msgs[m].st = "queued"}

\* The record of an invocation for message m that leaves processPage with err.
RunOf(m, err, outs, insFail, markOk) ==
    [page |-> PageOf(m), slot |-> m, rc |-> msgs'[m].rc, err |-> err, outs |-> outs,
     insFail |-> insFail, markOk |-> markOk, before |-> rows[PageOf(m)],
     saved |-> IF Saved(err)
               THEN savedOrder(outs, Extraction(PageOf(m), err, outs).got, insFail, 1)
               ELSE <<>>]

Next ==
    \/ apiHandlePDFUpload
    \/ handleMultiImageUpload_InsertBatch
    \/ handleMultiImageUpload_InsertPage
    \/ ClientPutPDF
    \/ \E p \in Pages : ClientPutPage(p)
    \/ handlePDFUpload_MarkProcessing
    \/ handlePDFUpload_Rasterize
    \/ handlePDFUpload_PageCount
    \/ handlePDFUpload_InsertPage
    \/ \E p \in Pages : handlePageArrival(p)
    \/ \E m \in Queued, ok, markOk \in BOOLEAN :
          Handle_Receive(m, ok, markOk) /\ UNCHANGED <<lastRun, arrival>>
    \/ \E m \in Running, err \in PageErrors \cup {""}, markOk \in BOOLEAN :
          \E outs \in Inputs(m), insFail \in SUBSET (1..slicesOf[PageOf(m)]) :
             processPage(m, err, outs, insFail, markOk) /\ UNCHANGED <<lastRun, arrival>>
    \/ \E m \in Slot : checkBatchCompletion_Count(m)
    \/ \E m \in Slot : checkBatchCompletion_Write(m)

Spec == Init /\ [][Next]_vars

\* Intake and Split alone: the Analyze messages they send stay in the queue.
NextSplit ==
    \/ apiHandlePDFUpload
    \/ handleMultiImageUpload_InsertBatch
    \/ handleMultiImageUpload_InsertPage
    \/ ClientPutPDF
    \/ \E p \in Pages : ClientPutPage(p)
    \/ handlePDFUpload_MarkProcessing
    \/ handlePDFUpload_Rasterize
    \/ handlePDFUpload_PageCount
    \/ handlePDFUpload_InsertPage
    \/ \E p \in Pages : handlePageArrival(p)

SpecSplit == Init /\ [][NextSplit]_vars

\* The Analyze stage alone: a multi-image batch whose rows are inserted and
\* whose page images have arrived, one message queued per page.
InitAnalyze ==
    /\ req \in [type : {"multi_image"}, n : Pages]
    /\ slicesOf \in [Pages -> SliceIdx]
    /\ \A p \in Pages : (p > req.n \/ req.n > 1) => slicesOf[p] = 1
    /\ faults = MaxAnalyzeFaults
    /\ intake = [pc |-> "returned", i |-> req.n]
    /\ batch = [status |-> "processing", page_count |-> <<req.n>>]
    /\ pages = [p \in Pages |-> IF p <= req.n THEN "pending" ELSE "absent"]
    /\ rows = [p \in Pages |-> [s \in SliceIdx |-> 0]]
    /\ objUpload = FALSE
    /\ pageObj = [p \in Pages |-> p <= req.n]
    /\ evUpload = 0
    /\ evPage = [p \in Pages |-> IF p <= req.n THEN 1 ELSE 0]
    /\ split = [pc |-> "idle", i |-> 0, ret |-> "none", marked |-> FALSE]
    /\ msgs = [m \in Slot |-> IF m[1] <= req.n /\ m[2] = 1
                               THEN [st |-> "queued", rc |-> 0, write |-> ""]
                               ELSE FreeMsg]
    /\ lastRun = NoRun
    /\ arrival = NoArrival
    /\ InitLib

NextAnalyze ==
    \/ \E m \in Queued, ok, markOk \in BOOLEAN :
          /\ Handle_Receive(m, ok, markOk)
          /\ lastRun' = IF ok THEN NoRun
                        ELSE RunOf(m, "mark processing", <<>>, {}, markOk)
          /\ UNCHANGED arrival
    \/ \E m \in Running, err \in PageErrors \cup {""}, markOk \in BOOLEAN :
          \E outs \in Inputs(m), insFail \in SUBSET (1..slicesOf[PageOf(m)]) :
             /\ processPage(m, err, outs, insFail, markOk)
             /\ lastRun' = RunOf(m, err, outs, insFail, markOk)
             /\ UNCHANGED arrival
    \/ \E m \in Slot : checkBatchCompletion_Count(m)
    \/ \E m \in Slot : checkBatchCompletion_Write(m)

SpecAnalyze == InitAnalyze /\ [][NextAnalyze]_vars

\* ------------------------------------------------- identity reconciliation

\* A string is a sequence of one-character strings over this alphabet.
Alphabet == {"a", "A", "B", "-", " ", "\t"}
Whitespace == {" ", "\t"}

\* The strings of length at most n.
Str(n) == UNION {[1..k -> Alphabet] : k \in 0..n}

RECURSIVE TrimLeft(_)
TrimLeft(s) ==
    IF s # <<>> /\ Head(s) \in Whitespace THEN TrimLeft(Tail(s)) ELSE s

RECURSIVE TrimRight(_)
TrimRight(s) ==
    IF s # <<>> /\ s[Len(s)] \in Whitespace
    THEN TrimRight(SubSeq(s, 1, Len(s) - 1)) ELSE s

\* strings.TrimSpace: leading and trailing white space removed.
TrimSpace(s) == TrimRight(TrimLeft(s))

\* strings.ToUpper on the alphabet.
ToUpper(s) == [i \in DOMAIN s |-> IF s[i] = "a" THEN "A" ELSE s[i]]

\* strings.ReplaceAll(s, c, ""): every occurrence of the character removed.
RemoveAll(s, c) == SelectSeq(s, LAMBDA x : x # c)

\* strings.Contains(a, b): b occurs in a as a contiguous substring.
Contains(a, b) ==
    \E i \in 0..(Len(a) - Len(b)) : SubSeq(a, i + 1, i + Len(b)) = b

normalize(s) == RemoveAll(RemoveAll(ToUpper(TrimSpace(s)), "-"), " ")

\* A match that looks for the expected string in the extracted one only.
fuzzyMatch_OneWay(extracted, expected) ==
    Contains(normalize(extracted), normalize(expected))

fuzzyMatch(extracted, expected) ==
    \/ Contains(normalize(extracted), normalize(expected))
    \/ Contains(normalize(expected), normalize(extracted))

serialMatch(e, expected) == normalize(e.serial) = normalize(expected.serialNumber)

\* A check that never holds the make against the entry (deviation used to
\* show that C13 depends on the make comparison).
makeMatch_Ignored(e, expected) == TRUE

makeMatch(e, expected) ==
    IF e.make # <<>> /\ expected.make # <<>>
    THEN fuzzyMatch(e.make, expected.make) ELSE TRUE

modelMatch(e, expected) ==
    IF e.model # <<>> /\ expected.model # <<>>
    THEN fuzzyMatch(e.model, expected.model) ELSE TRUE

\* The note appended to extraction_notes: which comparisons failed, in order.
mismatchNote(e, expected) ==
    [mismatch |->
        (IF serialMatch(e, expected) THEN <<>> ELSE <<"serial">>) \o
        (IF makeMatch(e, expected) THEN <<>> ELSE <<"make">>) \o
        (IF modelMatch(e, expected) THEN <<>> ELSE <<"model">>)]

\* checkAircraftIdentity: the entry after the comparison with the aircraft's
\* authoritative identity.
checkAircraftIdentity(e, expected) ==
    IF expected.serialNumber = <<>> THEN e
    ELSE IF e.serial = <<>> THEN e
    ELSE IF ~serialMatch(e, expected) \/ (~makeMatch(e, expected) /\ ~modelMatch(e, expected))
    THEN [e EXCEPT !.needsReview = TRUE,
                   !.notes = Append(@, mismatchNote(e, expected)),
                   !.missingData = Append(@, "aircraft_identity_mismatch")]
    ELSE e

\* -------------------------------------------------------- entry persistence

legacyInspectionMap ==
    ("annual" :> "annual") @@ ("100hr" :> "100hr") @@ ("progressive" :> "progressive") @@
    ("altimeter_check" :> "altimeter_static") @@ ("transponder_check" :> "transponder")

validEntryTypes == {"maintenance", "inspection", "ad_compliance", "other"}

validComplianceMethods ==
    {"inspection", "replacement", "modification", "terminating_action", "recurring",
     "not_applicable", "other"}

validInspectionTypes ==
    {"annual", "100hr", "50hr", "progressive", "altimeter_static", "transponder", "elt",
     "other"}

\* A narrative gets an embedding when it is longer than this many bytes.
MinNarrative == 10

\* A column that the INSERT leaves or sets NULL holds the empty sequence.
Null == <<>>

\* A saveEntry that keeps the extracted entry type (deviation used to show
\* that C15 depends on normalizeEntryType).
normalizeEntryType_Keep(e) == e

normalizeEntryType(e) ==
    LET e1 == IF e.entryType = "" THEN [e EXCEPT !.entryType = "maintenance"] ELSE e
        e2 == IF e1.entryType \in DOMAIN legacyInspectionMap
              THEN [e1 EXCEPT !.inspectionType = legacyInspectionMap[e1.entryType],
                              !.entryType = "inspection"]
              ELSE IF e1.entryType = "inspection" /\ e1.inspectionType = ""
              THEN [e1 EXCEPT !.inspectionType = "other"]
              ELSE e1
    IN IF e2.entryType \notin validEntryTypes THEN [e2 EXCEPT !.entryType = "other"] ELSE e2

\* The compliance_method written for an extracted method.
complianceMethod(method) ==
    IF method # "" /\ method \notin validComplianceMethods THEN "other" ELSE method

\* The inspection_type written for a non-empty InspectionType.
inspectionType(t) == IF t \notin validInspectionTypes THEN "other" ELSE t

\* The maintenance_entries row of the INSERT; extraction_notes is not among
\* its columns.
entryRow(id, e) ==
    [id |-> id, entry_type |-> e.entryType, entry_date |-> e.date,
     maintenance_narrative |-> e.narrative, needs_review |-> e.needsReview,
     missing_data |-> IF Len(e.missingData) > 0 THEN e.missingData ELSE Null,
     extraction_notes |-> Null]

\* INSERT ... ON CONFLICT (entry_id, chunk_type) DO UPDATE.
upsertEmbedding(embs, id) ==
    IF \E i \in DOMAIN embs : embs[i].entry_id = id /\ embs[i].chunk_type = "narrative"
    THEN embs
    ELSE Append(embs, [entry_id |-> id, chunk_type |-> "narrative"])

\* A saveEntry that inserts whatever the date is (deviation used to show that
\* C11 depends on the date test).
skipEntry_Never(e) == FALSE

\* saveEntry returns before any INSERT for an entry without a date.
skipEntry(e) == e.date = ""

\* A saveEntry that embeds every narrative (deviation used to show that C12
\* depends on the length test).
wantsEmbedding_Always(e) == TRUE

\* generateEmbedding is called for a narrative longer than MinNarrative bytes.
wantsEmbedding(e) == e.narrative > MinNarrative

\* saveEntry on tables t: the entry is normalized; without a date nothing is
\* written; a failing entry insert is the returned error; the inserts of the
\* child rows and the embedding only log their failure.
saveEntry(t, e0, insOk, partsOk, adOk, inspOk, embOk) ==
    LET e == normalizeEntryType(e0)
        id == Len(t.entries) + 1
        e3 == IF e.inspectionType # ""
              THEN [e EXCEPT !.inspectionType = inspectionType(@)] ELSE e
    IN IF skipEntry(e) THEN [tabs |-> t, entry |-> e, err |-> ""]
       ELSE IF ~insOk THEN [tabs |-> t, entry |-> e, err |-> "insert entry"]
       ELSE [tabs |->
               [entries |-> Append(t.entries, entryRow(id, e)),
                parts |-> IF partsOk
                          THEN t.parts \o [i \in 1..e.parts |-> [entry_id |-> id]]
                          ELSE t.parts,
                ads |-> IF adOk
                        THEN t.ads \o [i \in DOMAIN e.ad |->
                                 [entry_id |-> id,
                                  compliance_method |-> complianceMethod(e.ad[i])]]
                        ELSE t.ads,
                inspections |-> IF e.inspectionType # "" /\ inspOk
                                THEN Append(t.inspections,
                                            [entry_id |-> id,
                                             inspection_type |-> e3.inspectionType])
                                ELSE t.inspections,
                embeddings |-> IF wantsEmbedding(e) /\ embOk
                               THEN upsertEmbedding(t.embeddings, id)
                               ELSE t.embeddings],
             entry |-> e3, err |-> ""]

\* The loop over the extracted entries, first statement: the identity check.
processEntry_Check ==
    /\ ent.pc = "extracted"
    /\ ent' = [ent EXCEPT !.pc = "checked",
                          !.entry = checkAircraftIdentity(ent.entry, ent.expected)]
    /\ UNCHANGED <<tabs, up, sl, pg, vf, rp, nz, rg, sc, pipeVars>>

\* The loop over the extracted entries, second statement: saveEntry, whose
\* error is logged.
processEntry_Save ==
    /\ ent.pc = "checked"
    /\ \E insOk, partsOk, adOk, inspOk, embOk \in BOOLEAN :
         LET r == saveEntry(tabs, ent.entry, insOk, partsOk, adOk, inspOk, embOk)
         IN /\ ent' = [ent EXCEPT !.pc = "saved", !.entry = r.entry, !.err = r.err,
                                   !.embOk = embOk]
            /\ tabs' = r.tabs
    /\ UNCHANGED <<up, sl, pg, vf, rp, nz, rg, sc, pipeVars>>

NextEntry ==
    \/ processEntry_Check
    \/ processEntry_Save

\* An entry as the model extracted it, with nothing of interest in it.
PlainEntry ==
    [date |-> "2024-01-15", serial |-> <<>>, make |-> <<>>, model |-> <<>>,
     entryType |-> "maintenance", inspectionType |-> "", narrative |-> 0,
     needsReview |-> FALSE, missingData |-> <<>>, notes |-> <<>>, ad |-> <<>>,
     parts |-> 0]

\* Authoritative identities of the aircraft row: without a serial, and with
\* serial, make and model in several spellings.
Registry ==
    {[serialNumber |-> <<>>, make |-> <<"A">>, model |-> <<"B">>],
     [serialNumber |-> <<"A">>, make |-> <<>>, model |-> <<>>],
     [serialNumber |-> <<"A">>, make |-> <<"A">>, model |-> <<"B">>],
     [serialNumber |-> <<"a", "-", "B">>, make |-> <<"A", "B">>, model |-> <<"B", " ">>],
     [serialNumber |-> <<"-">>, make |-> <<"B">>, model |-> <<" ", "a">>]}

\* Entries that differ in the identity the model read off the page.
IdentityEntries ==
    {[PlainEntry EXCEPT !.serial = s, !.make = mk, !.model = md] :
        s \in Str(MaxStrLen), mk \in Str(MaxStrLen), md \in Str(MaxStrLen)}

EntryTypes == validEntryTypes \cup DOMAIN legacyInspectionMap \cup {"", "overhaul"}

\* Entries that differ in what saveEntry looks at.
PersistEntries ==
    {[PlainEntry EXCEPT !.date = d, !.entryType = et, !.inspectionType = it,
                        !.narrative = n, !.ad = ad, !.parts = k, !.serial = s] :
        d \in {"", "2024-01-15"}, et \in EntryTypes,
        it \in {"", "annual", "50hr", "biennial"},
        n \in {0, MinNarrative, MinNarrative + 1},
        ad \in {<<>>} \cup {<<m>> : m \in validComplianceMethods \cup {"", "welding"}},
        k \in 0..MaxParts,
        s \in {<<>>, <<"A">>, <<"B">>}}

InitEntry ==
    /\ \/ \E e \in IdentityEntries, x \in Registry :
             ent = [pc |-> "extracted", in |-> e, entry |-> e, expected |-> x, err |-> "",
                    embOk |-> FALSE]
       \/ \E e \in PersistEntries :
             ent = [pc |-> "extracted", in |-> e, entry |-> e, err |-> "", embOk |-> FALSE,
                    expected |-> [serialNumber |-> <<"A">>, make |-> <<>>, model |-> <<>>]]
    /\ tabs = NoTables
    /\ up = NoUpload
    /\ sl = NoSlicing
    /\ pg = NoPage
    /\ vf = NoVerify
    /\ rp = NoPrompt
    /\ nz = NoStrings
    /\ rg = NoRegions
    /\ sc = NoSecrets
    /\ req = [type |-> "multi_image", n |-> 1]
    /\ slicesOf = [p \in Pages |-> 1]
    /\ faults = 0
    /\ InitCommon

SpecEntry == InitEntry /\ [][NextEntry]_vars

\* ----------------------------------------------------------- upload request
\* POST /uploads taken on its own, as a function of the request body and of
\* the call that fails, on an empty database.  A file name is a sequence of
\* pieces; a piece that begins with a dot is one of Dotted.

MaxFilesPerUpload == 500
PageNumberWidth == 4

Dotted == {".jpg", ".JPG", ".png", ".pdf", ".txt"}

pdfExtensions == {<<".pdf">>}
imageExtensions ==
    {<<".jpg">>, <<".jpeg">>, <<".png">>, <<".gif">>, <<".bmp">>, <<".tiff">>,
     <<".tif">>, <<".heic">>, <<".heif">>}

\* filepath.Ext: the suffix that begins at the last dot, empty without a dot.
Ext(name) ==
    LET dots == {i \in DOMAIN name : name[i] \in Dotted}
    IN IF dots = {} THEN <<>>
       ELSE SubSeq(name, CHOOSE i \in dots : \A j \in dots : j <= i, Len(name))

\* strings.ToLower on a file name.
ToLower(s) == [i \in DOMAIN s |-> IF s[i] = ".JPG" THEN ".jpg" ELSE s[i]]

DigitChar == <<"0", "1", "2", "3", "4", "5", "6", "7", "8", "9">>

\* %d
RECURSIVE Sprintf_d(_)
Sprintf_d(n) ==
    IF n < 10 THEN <<DigitChar[n + 1]>>
    ELSE Append(Sprintf_d(n \div 10), DigitChar[(n % 10) + 1])

RECURSIVE ZeroPad(_, _)
ZeroPad(s, w) == IF Len(s) >= w THEN s ELSE ZeroPad(<<"0">> \o s, w)

\* %04d without its width.
Sprintf_04d_Unpadded(n) == Sprintf_d(n)

\* %04d
Sprintf_04d(n) == ZeroPad(Sprintf_d(n), PageNumberWidth)

\* The files of the request that the classification loop keeps, by kind; a
\* file that is neither is in neither list.
classifyFiles(files) ==
    [pdf |-> SelectSeq(files, LAMBDA f : ToLower(Ext(f.filename)) \in pdfExtensions),
     img |-> SelectSeq(files, LAMBDA f : /\ ToLower(Ext(f.filename)) \notin pdfExtensions
                                         /\ ToLower(Ext(f.filename)) \in imageExtensions)]

errResponse(code, msg) == [code |-> code, body |-> msg, err |-> ""]

\* The handler returns an error instead of a response.
errReturn(msg) == [code |-> 0, body |-> "", err |-> msg]

NoDB == [aircraft |-> 0, batches |-> <<>>, upload_pages |-> <<>>]

\* The PDF branch of POST /uploads.
apiHandlePDFUploadOf(db, batchID, file, fail) ==
    LET filename == IF file.filename = <<>> THEN <<"logbook", ".pdf">> ELSE file.filename
        s3Key == <<"uploads/", batchID, "/">> \o filename
        row == [id |-> batchID, upload_type |-> "pdf", s3_key |-> s3Key,
                page_count |-> Null, processing_status |-> "pending"]
        db1 == [db EXCEPT !.batches = Append(@, row)]
    IN IF fail.at = "insert batch" THEN [db |-> db, resp |-> errReturn("insert batch")]
       ELSE IF fail.at = "presign" THEN [db |-> db1, resp |-> errReturn("presign")]
       ELSE [db |-> db1, resp |-> [code |-> 200, body |-> "pdf", err |-> ""]]

\* The key under which page pageNum of the batch is to be PUT.
pageKey(batchID, pageNum, ext) ==
    <<"pages/", batchID, "/page_">> \o Sprintf_04d(pageNum) \o ext

\* The upload_pages row of the i-th image file.
pageRow(batchID, i, f) ==
    LET filename == IF f.filename = <<>>
                    THEN <<"page_">> \o Sprintf_04d(i) \o <<".jpg">>
                    ELSE f.filename
        ext == ToLower(Ext(filename))
    IN [document_id |-> batchID, page_number |-> i, image_path |-> pageKey(batchID, i, ext),
        extraction_status |-> "pending"]

\* The image branch of POST /uploads: the batch row, then for each file its
\* page row and its presigned URL, returning at the first call that fails.
handleMultiImageUpload(db, batchID, files, fail) ==
    LET pageCount == Len(files)
        row == [id |-> batchID, upload_type |-> "multi_image", s3_key |-> Null,
                page_count |-> <<pageCount>>, processing_status |-> "pending"]
        failsAt == IF fail.at \in {"insert page", "presign"} /\ fail.i <= pageCount
                   THEN fail.i ELSE 0
        inserted == IF failsAt = 0 THEN pageCount
                    ELSE IF fail.at = "insert page" THEN failsAt - 1 ELSE failsAt
        db1 == [db EXCEPT !.batches = Append(@, row),
                          !.upload_pages =
                              @ \o [i \in 1..inserted |-> pageRow(batchID, i, files[i])]]
    IN IF fail.at = "insert batch" THEN [db |-> db, resp |-> errReturn("insert batch")]
       ELSE IF failsAt # 0 THEN [db |-> db1, resp |-> errReturn(fail.at)]
       ELSE [db |-> db1, resp |-> [code |-> 200, body |-> "multi_image", err |-> ""]]

\* POST /uploads.
handleUpload(db, r, batchID, fail) ==
    LET tail == ToUpper(TrimSpace(r.tailNumber))
        c == classifyFiles(r.files)
        db1 == [db EXCEPT !.aircraft = 1]
    IN IF ~r.json THEN [db |-> db, resp |-> errResponse(400, "invalid request body")]
       ELSE IF tail = <<>> THEN [db |-> db, resp |-> errResponse(400, "tailNumber is required")]
       ELSE IF Len(r.files) = 0
            THEN [db |-> db, resp |-> errResponse(400, "files array is required")]
       ELSE IF Len(r.files) > MaxFilesPerUpload
            THEN [db |-> db, resp |-> errResponse(400, "Maximum 500 files per upload")]
       ELSE IF Len(c.pdf) > 0 /\ Len(c.img) > 0
            THEN [db |-> db, resp |-> errResponse(400, "Cannot mix PDF and image files")]
       ELSE IF Len(c.pdf) = 0 /\ Len(c.img) = 0
            THEN [db |-> db, resp |-> errResponse(400, "Files must be PDF or images")]
       ELSE IF Len(c.pdf) > 1
            THEN [db |-> db, resp |-> errResponse(400, "Only one PDF per upload")]
       ELSE IF fail.at = "upsert aircraft"
            THEN [db |-> db, resp |-> errReturn("upsert aircraft")]
       ELSE IF Len(c.pdf) > 0 THEN apiHandlePDFUploadOf(db1, batchID, c.pdf[1], fail)
       ELSE handleMultiImageUpload(db1, batchID, c.img, fail)

\* The call that fails in an invocation, if any.
FailPoints ==
    {[at |-> a, i |-> 0] : a \in {"none", "upsert aircraft", "insert batch"}}
        \cup [at : {"insert page", "presign"}, i : 1..MaxFiles]

\* API Gateway invokes the handler with the request.
PostUploads ==
    /\ up.pc = "received"
    /\ \E fail \in FailPoints :
         LET r == handleUpload(up.db, up.req, "batch-1", fail)
         IN up' = [up EXCEPT !.pc = "returned", !.db = r.db, !.resp = r.resp,
                             !.fail = fail]
    /\ UNCHANGED <<pipeVars, ent, tabs, sl, pg, vf, rp, nz, rg, sc>>

NextUpload == PostUploads

FileNames ==
    {<<>>, <<"scan">>, <<"scan", ".jpg">>, <<"scan", ".JPG">>, <<"scan", ".png">>,
     <<"scan", ".pdf">>, <<"scan", ".txt">>, <<"scan", ".pdf", ".jpg">>,
     <<"scan", ".jpg", "old">>}

Files == UNION {[1..k -> [filename : FileNames]] : k \in 0..MaxFiles}

Requests ==
    {[json |-> FALSE, tailNumber |-> <<>>, files |-> <<>>]}
        \cup [json : {TRUE}, tailNumber : {<<>>, <<" ">>, <<"a">>}, files : Files]

InitUpload ==
    /\ up \in [pc : {"received"}, req : Requests, db : {NoDB},
               resp : {errReturn("")}, fail : {[at |-> "none", i |-> 0]}]
    /\ sl = NoSlicing
    /\ pg = NoPage
    /\ vf = NoVerify
    /\ rp = NoPrompt
    /\ nz = NoStrings
    /\ rg = NoRegions
    /\ sc = NoSecrets
    /\ ent = NoEntry
    /\ tabs = NoTables
    /\ req = [type |-> "multi_image", n |-> 1]
    /\ slicesOf = [p \in Pages |-> 1]
    /\ faults = 0
    /\ InitCommon

SpecUpload == InitUpload /\ [][NextUpload]_vars

\* ------------------------------------------------------------------- slicer
\* SliceImage taken on its own, as a function of the decoded image and of the
\* options.  An image is black ink on white: width, and for each row the
\* number of its ink pixels.  Rows are numbered from 0 as in the source; row y
\* of a profile p is p[y + 1].  A region is <<y0, y1>>, the rows y0 .. y1 - 1.

referenceHeight == 3024

DefaultOptions ==
    [DarknessThreshold |-> 128, DilationRadius |-> 80, MinGapHeight |-> 10,
     MinSliceHeight |-> 150, Padding |-> 15, JPEGQuality |-> 85]

\* Integer division of Go, which truncates toward zero.
GoDiv(a, b) == IF a >= 0 THEN a \div b ELSE -((-a) \div b)

scale(v, height) ==
    LET s == GoDiv(v * height, referenceHeight)
    IN IF s < 1 /\ v > 0 THEN 1 ELSE s

scaleToHeight(opts, height) ==
    IF height <= 0 \/ height = referenceHeight THEN opts
    ELSE [opts EXCEPT !.DilationRadius = scale(@, height),
                      !.MinGapHeight = scale(@, height),
                      !.MinSliceHeight = scale(@, height),
                      !.Padding = scale(@, height)]

\* The dark pixels of each row: ink has luma 0, paper has luma 255.
projectionProfile(img, threshold) ==
    [y \in DOMAIN img.ink |-> IF 0 < threshold THEN img.ink[y] ELSE 0]

\* Step 2 of SliceImage: the noise floor is taken off every row.
subtractNoiseFloor(profile, width) ==
    LET noiseFloor == (width * 7) \div 100
    IN [i \in DOMAIN profile |-> IF profile[i] > noiseFloor THEN profile[i] - noiseFloor
                                 ELSE 0]

RECURSIVE SumRows(_, _, _)
SumRows(profile, lo, hi) ==
    IF lo > hi THEN 0 ELSE profile[lo + 1] + SumRows(profile, lo + 1, hi)

\* The mean of the rows i - radius .. i + radius that exist (radius >= 0).
smoothProfile(profile, radius) ==
    LET n == Len(profile)
    IN [k \in DOMAIN profile |->
          LET i == k - 1
              lo == IF i - radius < 0 THEN 0 ELSE i - radius
              hi == IF i + radius >= n THEN n - 1 ELSE i + radius
          IN GoDiv(SumRows(profile, lo, hi), hi - lo + 1)]

\* The loop of mergeRegions, were a merge to leave the end of the last
\* region where it is.
RECURSIVE mergeFrom_KeepEnd(_, _, _, _)
mergeFrom_KeepEnd(regions, minGap, i, merged) ==
    IF i > Len(regions) THEN merged
    ELSE LET last == merged[Len(merged)]
             gap == regions[i][1] - last[2]
         IN IF gap < minGap
            THEN mergeFrom_KeepEnd(regions, minGap, i + 1, merged)
            ELSE mergeFrom_KeepEnd(regions, minGap, i + 1, Append(merged, regions[i]))

\* The loop of mergeRegions from the i-th region on.
RECURSIVE mergeFrom(_, _, _, _)
mergeFrom(regions, minGap, i, merged) ==
    IF i > Len(regions) THEN merged
    ELSE LET last == merged[Len(merged)]
             gap == regions[i][1] - last[2]
         IN IF gap < minGap
            THEN mergeFrom(regions, minGap, i + 1,
                           [merged EXCEPT ![Len(merged)] = <<last[1], regions[i][2]>>])
            ELSE mergeFrom(regions, minGap, i + 1, Append(merged, regions[i]))

mergeRegions(regions, minGap) ==
    IF Len(regions) <= 1 THEN regions
    ELSE mergeFrom(regions, minGap, 2, <<regions[1]>>)

\* The loop of findRegions over the rows y .. height - 1.
RECURSIVE scanRows(_, _, _, _, _, _, _)
scanRows(dilated, height, contentThreshold, y, inRegion, start, regions) ==
    IF y >= height
    THEN IF inRegion THEN Append(regions, <<start, height>>) ELSE regions
    ELSE IF dilated[y + 1] > contentThreshold
         THEN scanRows(dilated, height, contentThreshold, y + 1, TRUE,
                       IF inRegion THEN start ELSE y, regions)
         ELSE scanRows(dilated, height, contentThreshold, y + 1, FALSE, start,
                       IF inRegion THEN Append(regions, <<start, y>>) ELSE regions)

findRegions(dilated, height, minGapHeight, contentThreshold) ==
    mergeRegions(scanRows(dilated, height, contentThreshold, 0, FALSE, 0, <<>>),
                 minGapHeight)

\* absorbSmallRegions, were it to merge nothing.
absorbSmallRegions_Never(regions, minHeight) == regions

RECURSIVE absorbSmallRegions(_, _)
absorbSmallRegions(regions, minHeight) ==
    LET n == Len(regions)
        H(i) == regions[i][2] - regions[i][1]
        small == {i \in DOMAIN regions : H(i) < minHeight}
        \* the smallest region below the threshold, the first of them on a tie
        smallIdx == CHOOSE i \in small :
                        \A j \in small : H(i) < H(j) \/ (H(i) = H(j) /\ i <= j)
        gapBefore == regions[smallIdx][1] - regions[smallIdx - 1][2]
        gapAfter == regions[smallIdx + 1][1] - regions[smallIdx][2]
        mergeWith == IF smallIdx = 1 THEN smallIdx + 1
                     ELSE IF smallIdx < n /\ gapAfter < gapBefore THEN smallIdx + 1
                     ELSE smallIdx - 1
        lo == IF smallIdx < mergeWith THEN smallIdx ELSE mergeWith
        hi == IF smallIdx < mergeWith THEN mergeWith ELSE smallIdx
        merged == <<regions[lo][1], regions[hi][2]>>
    IN IF small = {} \/ n < 2 THEN regions
       ELSE absorbSmallRegions(SubSeq(regions, 1, lo - 1) \o <<merged>>
                                   \o SubSeq(regions, hi + 1, n), minHeight)

\* A crop that takes the padding off the region instead of adding it.
cropRegion_Inset(r, padding, height) == [Y0 |-> r[1] + padding, Y1 |-> r[2] - padding]

\* The region with the padding added on both sides, within the image.
cropRegion(r, padding, height) ==
    LET y0 == r[1] - padding
        y1 == r[2] + padding
    IN [Y0 |-> IF y0 < 0 THEN 0 ELSE y0, Y1 |-> IF y1 > height THEN height ELSE y1]

\* The index of the slice cut from the i-th region: the position of the region.
sliceIndex_OfRegion(slices, i) == i - 1

\* The index of the slice cut from the i-th region: idx, which counts the
\* slices kept so far.
sliceIndex(slices, i) == Len(slices)

\* Step 7 of SliceImage, were it to keep every region whatever its height.
RECURSIVE cropRegions_NoFilter(_, _, _, _, _)
cropRegions_NoFilter(regions, opts, height, i, slices) ==
    IF i > Len(regions) THEN slices
    ELSE LET c == cropRegion(regions[i], opts.Padding, height)
         IN cropRegions_NoFilter(regions, opts, height, i + 1,
                                 Append(slices, [Index |-> sliceIndex(slices, i),
                                                 Y0 |-> c.Y0, Y1 |-> c.Y1]))

\* Step 7 of SliceImage: the loop over the regions from the i-th on.
RECURSIVE cropRegions(_, _, _, _, _)
cropRegions(regions, opts, height, i, slices) ==
    IF i > Len(regions) THEN slices
    ELSE LET c == cropRegion(regions[i], opts.Padding, height)
         IN IF c.Y1 - c.Y0 < opts.MinSliceHeight
            THEN cropRegions(regions, opts, height, i + 1, slices)
            ELSE cropRegions(regions, opts, height, i + 1,
                             Append(slices, [Index |-> sliceIndex(slices, i), Y0 |-> c.Y0,
                                             Y1 |-> c.Y1]))

\* The rows of the smoothed profile, and the regions SliceImage derives from them.
smoothedOf(img, opts) ==
    smoothProfile(subtractNoiseFloor(projectionProfile(img, opts.DarknessThreshold),
                                     img.width),
                  opts.DilationRadius)

regionsOf(img, opts) ==
    LET height == Len(img.ink)
        contentThreshold == img.width \div 100
        minEntryHeight == height \div 8
    IN absorbSmallRegions(findRegions(smoothedOf(img, opts), height, opts.MinGapHeight,
                                      contentThreshold),
                          minEntryHeight)

\* encodeJPEG succeeds on a crop of the image: jpeg.Encode refuses an image
\* with a side of 2^16 pixels or more.  A crop with y0 > y1 is the rectangle
\* between the two, image.Rect swapping them.
encodeJPEG(width, y0, y1) ==
    /\ width < 2 ^ 16
    /\ (IF y0 <= y1 THEN y1 - y0 ELSE y0 - y1) < 2 ^ 16

\* The whole image as the only slice, if it can be encoded.
fullImage(img) ==
    IF encodeJPEG(img.width, 0, Len(img.ink))
    THEN [slices |-> <<[Index |-> 0, Y0 |-> 0, Y1 |-> Len(img.ink)]>>, err |-> ""]
    ELSE [slices |-> <<>>, err |-> "encode full image"]

\* The end of SliceImage without its test for an empty list.
fallbackIfEmpty_Never(slices, img) == [slices |-> slices, err |-> ""]

\* The end of SliceImage: the whole image if no slice was kept.
fallbackIfEmpty(slices, img) ==
    IF Len(slices) = 0 THEN fullImage(img) ELSE [slices |-> slices, err |-> ""]

SliceImage(img, opts0) ==
    LET height == Len(img.ink)
        opts == scaleToHeight(opts0, height)
        regions == regionsOf(img, opts)
        slices == cropRegions(regions, opts, height, 1, <<>>)
    IN IF ~img.decodes THEN [slices |-> <<>>, err |-> "decode image"]
       ELSE IF Len(regions) < 2 THEN fullImage(img)
       ELSE IF \E k \in DOMAIN slices :
                   ~encodeJPEG(img.width, slices[k].Y0, slices[k].Y1)
            THEN [slices |-> <<>>, err |-> "encode slice"]
       ELSE fallbackIfEmpty(slices, img)

\* The slicer is called with the image and the options.
SliceImage_Call ==
    /\ sl.pc = "called"
    /\ LET r == SliceImage(sl.img, sl.opts)
       IN sl' = [sl EXCEPT !.pc = "returned", !.slices = r.slices, !.err = r.err,
                           !.regions = IF sl.img.decodes
                                       THEN regionsOf(sl.img,
                                                scaleToHeight(sl.opts, Len(sl.img.ink)))
                                       ELSE <<>>]
    /\ UNCHANGED <<pipeVars, ent, tabs, up, pg, vf, rp, nz, rg, sc>>

NextSlicer == SliceImage_Call

\* A band of rows with the same ink: blank paper, a faint line (9% of the
\* width), text (40% of the width).
BandHeights == {1, 8}
BandInk(width) == {0, (9 * width) \div 100, (40 * width) \div 100}
Bands(width) == [rows : BandHeights, ink : BandInk(width)]

RECURSIVE Flatten(_)
Flatten(bands) ==
    IF bands = <<>> THEN <<>>
    ELSE [k \in 1..Head(bands).rows |-> Head(bands).ink] \o Flatten(Tail(bands))

\* Pages of three entries of text, each below a blank gap.
EntryPages ==
    {[decodes |-> TRUE, width |-> 100,
      ink |-> Flatten(<<[rows |-> g[1], ink |-> 0], [rows |-> e[1], ink |-> 40],
                        [rows |-> g[2], ink |-> 0], [rows |-> e[2], ink |-> 40],
                        [rows |-> g[3], ink |-> 0], [rows |-> e[3], ink |-> 40]>>)] :
        g \in [1..3 -> {1, 8}], e \in [1..3 -> {1, 8, 16}]}

\* Bytes that do not decode, pages of three entries, images 100 pixels wide, and images of one or
\* two bands that are 2^16 pixels wide.
Images ==
    {[decodes |-> FALSE, width |-> 100, ink |-> <<>>]}
        \cup {[decodes |-> TRUE, width |-> 100, ink |-> Flatten(b)] :
                  b \in UNION {[1..k -> Bands(100)] : k \in 1..MaxBands}}
        \cup {[decodes |-> TRUE, width |-> 2 ^ 16, ink |-> Flatten(b)] :
                  b \in UNION {[1..k -> Bands(2 ^ 16)] : k \in 1..2}}
        \cup EntryPages

\* The default options, and options that differ from them in the spatial
\* parameters, as multiples of the reference height.
OptionSets ==
    {[DefaultOptions EXCEPT !.DilationRadius = d, !.MinGapHeight = g,
                            !.MinSliceHeight = m, !.Padding = p] :
        d \in {0, 80}, g \in {0, 10}, m \in {-1512, 0, 150, 1512}, p \in {-378, 0, 15}}
        \cup {[DefaultOptions EXCEPT !.DilationRadius = d, !.MinGapHeight = o[1],
                                     !.MinSliceHeight = o[2], !.Padding = o[3]] :
                 d \in {0, 80},
                 o \in {<<756, 150, 15>>, <<10, 756, 15>>, <<10, 150, 1512>>}}

InitSlicer ==
    /\ sl \in [pc : {"called"}, img : Images, opts : OptionSets, slices : {<<>>},
               err : {""}, regions : {<<>>}]
    /\ ent = NoEntry
    /\ tabs = NoTables
    /\ up = NoUpload
    /\ pg = NoPage
    /\ vf = NoVerify
    /\ rp = NoPrompt
    /\ nz = NoStrings
    /\ rg = NoRegions
    /\ sc = NoSecrets
    /\ req = [type |-> "multi_image", n |-> 1]
    /\ slicesOf = [p \in Pages |-> 1]
    /\ faults = 0
    /\ InitCommon

SpecSlicer == InitSlicer /\ [][NextSlicer]_vars

\* ------------------------------------------------------- one page's slices
\* processPage taken on its own for one page image: what it hands to the
\* extraction model for each slice, and the page's status when it returns.

mimeTypeMap ==
    (<<".jpg">> :> "image/jpeg") @@ (<<".jpeg">> :> "image/jpeg")
        @@ (<<".png">> :> "image/png") @@ (<<".gif">> :> "image/gif")
        @@ (<<".bmp">> :> "image/bmp") @@ (<<".tiff">> :> "image/tiff")
        @@ (<<".tif">> :> "image/tiff") @@ (<<".heic">> :> "image/heic")
        @@ (<<".heif">> :> "image/heif")

\* The MIME type processPage derives from the key of the page image.
mimeTypeOf(s3Key) ==
    LET e == ToLower(Ext(s3Key))
        ext == IF e = <<>> THEN <<".jpg">> ELSE e
    IN IF ext \in DOMAIN mimeTypeMap THEN mimeTypeMap[ext] ELSE "image/jpeg"

\* The bytes downloaded from the bucket, and the JPEG of a crop of them.
OriginalBytes == [kind |-> "original", Y0 |-> 0, Y1 |-> 0]
CropBytes(y0, y1) == [kind |-> "jpeg", Y0 |-> y0, Y1 |-> y1]

\* The call of the slicer with its fallback: on an error, one slice that
\* holds the bytes as downloaded.
slicePage(img) ==
    LET r == SliceImage(img, DefaultOptions)
    IN IF r.err # ""
       THEN [sliceErr |-> TRUE,
             slices |-> <<[Index |-> 0, ImageData |-> OriginalBytes, Y0 |-> 0, Y1 |-> 0]>>]
       ELSE [sliceErr |-> FALSE,
             slices |-> [k \in DOMAIN r.slices |->
                           [Index |-> r.slices[k].Index,
                            ImageData |-> CropBytes(r.slices[k].Y0, r.slices[k].Y1),
                            Y0 |-> r.slices[k].Y0, Y1 |-> r.slices[k].Y1]]]

\* The MIME type sent with a slice, were it always that of the slicer's output.
sliceMIME_AlwaysJPEG(sliceErr, mimeType) == "image/jpeg"

\* The MIME type sent with a slice.
sliceMIME(sliceErr, mimeType) == IF sliceErr THEN mimeType ELSE "image/jpeg"

\* The bytes sent with a slice.
sliceData(s, sliceErr, imageBytes) == IF sliceErr THEN imageBytes ELSE s.ImageData

\* The GenerateContent calls of the loop over the slices, one per slice.
geminiCalls(sp, mimeType) ==
    [k \in DOMAIN sp.slices |->
        [data |-> sliceData(sp.slices[k], sp.sliceErr, OriginalBytes),
         mime |-> sliceMIME(sp.sliceErr, mimeType)]]

\* Handle and processPage for the message of one page. err is the call of
\* processPage that fails, outs the responses of the extraction model; an
\* error leaves through Handle, which marks the page failed (markOk).
processPage_Slices ==
    /\ pg.pc = "received"
    /\ \E err \in PageErrors \cup {"", "mark processing"}, markOk \in BOOLEAN :
         LET sp == slicePage(pg.img)
             calls == IF Sliced(err) /\ err # "mark processing"
                      THEN geminiCalls(sp, mimeTypeOf(pg.key)) ELSE <<>>
         IN /\ err = "" => markOk
            /\ \E outs \in [DOMAIN calls -> {"ok", "error"}] :
                 pg' = [pg EXCEPT !.pc = "returned", !.err = err, !.calls = calls,
                                  !.outs = outs,
                                  !.status = IF err = "" THEN "completed"
                                             ELSE IF markOk THEN "failed"
                                             ELSE IF err = "mark processing" THEN "pending"
                                             ELSE "processing"]
    /\ UNCHANGED <<pipeVars, ent, tabs, up, sl, vf, rp, nz, rg, sc>>

NextPage == processPage_Slices

\* Keys of page images, as handleMultiImageUpload and Split write them and
\* with other endings.
PageKeys ==
    {<<"pages/", "batch-1", "/page_0001">> \o e :
        e \in {<<>>, <<".jpg">>, <<".JPG">>, <<".png">>, <<".txt">>}}

InitPage ==
    /\ pg \in [pc : {"received"}, key : PageKeys, img : Images, err : {""},
               calls : {<<>>}, outs : {<<>>}, status : {"pending"}]
    /\ ent = NoEntry
    /\ tabs = NoTables
    /\ up = NoUpload
    /\ sl = NoSlicing
    /\ vf = NoVerify
    /\ rp = NoPrompt
    /\ nz = NoStrings
    /\ rg = NoRegions
    /\ sc = NoSecrets
    /\ req = [type |-> "multi_image", n |-> 1]
    /\ slicesOf = [p \in Pages |-> 1]
    /\ faults = 0
    /\ InitCommon

SpecPage == InitPage /\ [][NextPage]_vars

\* ------------------------------------------------- extract and verify loop

\* What the extraction model returns for a slice: a transport error, an empty
\* string, text that is not JSON, or a result with some entries or none.
ExtractionOutcomes == {"error", "empty", "unparseable", "result"}

\* What the verification model says of one entry: its verdict and whether one
\* of the issues it lists is critical.
Verdicts ==
    {[verdict |-> "pass", critical |-> FALSE],
     [verdict |-> "needs_review", critical |-> FALSE],
     [verdict |-> "fail", critical |-> TRUE],
     [verdict |-> "fail", critical |-> FALSE]}

\* The entries of the n-entry result of extraction attempt number attempt.
extracted(n, attempt) ==
    [k \in 1..n |-> [attempt |-> attempt, NeedsReview |-> FALSE, ExtractionNotes |-> ""]]

\* The prompt of extraction attempt number attempt.
extractionPrompt(attempt) == IF attempt = 1 THEN "base" ELSE "retry"

\* Whether another extraction attempt is left after attempt number attempt,
\* were the loop to allow three attempts.
attemptsRemain_Three(attempt) == attempt < 3

\* Whether another extraction attempt is left after attempt number attempt.
attemptsRemain(attempt) == attempt < 2

\* Whether the verification model asks for a retry of the extraction.
wantsRetry(verdicts) ==
    \E k \in DOMAIN verdicts : verdicts[k].verdict = "fail" /\ verdicts[k].critical

\* An entry accepted under its verdict v once no retry follows. flagMinor is
\* what the loop does with a fail verdict that lists no critical issue.
accept(e, v, flagMinor) ==
    IF v.verdict = "pass" THEN e
    ELSE IF v.verdict = "needs_review"
    THEN [e EXCEPT !.NeedsReview = TRUE, !.ExtractionNotes = "summary"]
    ELSE IF v.critical THEN [e EXCEPT !.NeedsReview = TRUE]
    ELSE [e EXCEPT !.NeedsReview = flagMinor]

\* The entries accepted when both verification models failed, were they
\* flagged for review.
acceptUnverified_Flagged(entries) ==
    [k \in DOMAIN entries |-> [entries[k] EXCEPT !.NeedsReview = TRUE]]

\* The entries accepted when both verification models failed.
acceptUnverified(entries) == entries

\* Step 1 and 2 of the loop: one call of the extraction model. A failure and
\* a result without entries both return no entry.
extractAndVerifySlice_Extract ==
    /\ vf.pc = "extract"
    /\ \E out \in ExtractionOutcomes, entries \in 0..MaxEntries :
         LET n == IF out = "result" THEN entries ELSE 0
         IN vf' = [vf EXCEPT !.pc = IF n = 0 THEN "returned" ELSE "verify",
                             !.extractCalls = @ + 1,
                             !.prompts = Append(@, extractionPrompt(vf.attempt)),
                             !.entries = extracted(n, vf.attempt),
                             !.qa = [preferred |-> "none", secondary |-> "none"],
                             !.verdicts = <<>>,
                             !.verified = FALSE]
    /\ UNCHANGED <<pipeVars, ent, tabs, up, sl, pg, rp, nz, rg, sc>>

\* Step 3 and 4 of the loop: the verification of the extraction at hand, on
\* the preferred model if one is configured and on the extraction model if
\* that fails, and what the verdicts lead to.
extractAndVerifySlice_Verify ==
    /\ vf.pc = "verify"
    /\ \E preferred \in (IF vf.claude THEN {"ok", "error"} ELSE {"none"}),
          secondary \in {"ok", "error"}, flagMinor \in BOOLEAN :
         LET qa == [preferred |-> preferred,
                    secondary |-> IF preferred = "ok" THEN "none" ELSE secondary]
         IN IF qa.preferred # "ok" /\ qa.secondary # "ok"
            THEN vf' = [vf EXCEPT !.pc = "returned", !.qa = qa,
                                  !.entries = acceptUnverified(@)]
            ELSE \E verdicts \in [DOMAIN vf.entries -> Verdicts] :
                   IF wantsRetry(verdicts) /\ attemptsRemain(vf.attempt)
                   THEN vf' = [vf EXCEPT !.pc = "extract", !.qa = qa,
                                         !.verdicts = verdicts, !.verified = TRUE,
                                         !.attempt = @ + 1]
                   ELSE vf' = [vf EXCEPT !.pc = "returned", !.qa = qa,
                                         !.verdicts = verdicts, !.verified = TRUE,
                                         !.entries = [k \in DOMAIN @ |->
                                             accept(@[k], verdicts[k], flagMinor)]]
    /\ UNCHANGED <<pipeVars, ent, tabs, up, sl, pg, rp, nz, rg, sc>>

NextVerify == extractAndVerifySlice_Extract \/ extractAndVerifySlice_Verify

InitVerify ==
    /\ vf \in [pc : {"extract"}, claude : BOOLEAN, attempt : {1}, extractCalls : {0},
               prompts : {<<>>}, entries : {<<>>},
               qa : {[preferred |-> "none", secondary |-> "none"]},
               verdicts : {<<>>}, verified : {FALSE}]
    /\ ent = NoEntry
    /\ tabs = NoTables
    /\ up = NoUpload
    /\ sl = NoSlicing
    /\ pg = NoPage
    /\ rp = NoPrompt
    /\ nz = NoStrings
    /\ rg = NoRegions
    /\ sc = NoSecrets
    /\ req = [type |-> "multi_image", n |-> 1]
    /\ slicesOf = [p \in Pages |-> 1]
    /\ faults = 0
    /\ InitCommon

SpecVerify == InitVerify /\ [][NextVerify]_vars

\* ------------------------------------------------------------ retry prompt

\* Text is a sequence of pieces; two texts are the same text when their
\* pieces are the same.
SliceExtractionPrompt == <<"SliceExtractionPrompt">>

IssueKinds ==
    {"truncated", "incorrect", "missing_field", "added_text", "wrong_classification",
     "missing_entry"}

\* The issues the verification model reports for a field.
qaFieldIssue ==
    [Field : {"date"}, Issue : IssueKinds, Expected : {"", "2024-02-15"},
     Extracted : {"", "2024-01-15"}, Severity : {"critical", "minor"}]

\* strings.Join(lines, sep)
RECURSIVE Join(_, _)
Join(lines, sep) ==
    IF Len(lines) = 0 THEN <<>>
    ELSE IF Len(lines) = 1 THEN lines[1]
    ELSE lines[1] \o <<sep>> \o Join(Tail(lines), sep)

\* fmt.Sprintf("%q", s): s between double quotes.
Sprintf_q(s) == <<"\"", s, "\"">>

\* The corrective instruction for an issue kind.
instruction(kind) ==
    CASE kind = "truncated" ->
             "re-read the full text carefully, you may have stopped too early"
      [] kind = "incorrect" -> "verify this value against the image"
      [] kind = "missing_field" -> "look more carefully for this field in the image"
      [] kind = "added_text" -> "remove any words not visible in the image"
      [] kind = "wrong_classification" -> "reconsider the classification"
      [] OTHER -> "re-examine the image carefully"

\* The line of the prompt for one issue, were it to quote the value the
\* verification model proposes.
issueLine_WithExpected(issue) ==
    <<"- Field ">> \o Sprintf_q(issue.Field) \o <<": may be ", issue.Issue, " (",
      issue.Severity, ") -- ", "expected ">> \o Sprintf_q(issue.Expected)
      \o <<instruction(issue.Issue)>>

\* The line of the prompt for one issue.
issueLine(issue) ==
    <<"- Field ">> \o Sprintf_q(issue.Field) \o <<": may be ", issue.Issue, " (",
      issue.Severity, ") -- ", instruction(issue.Issue)>>

buildRetryPrompt(issues) ==
    IF Len(issues) = 0 THEN SliceExtractionPrompt
    ELSE LET lines ==
                 <<<<"Your previous extraction had issues that need correction:">>>>
                 \o [k \in DOMAIN issues |-> issueLine(issues[k])]
                 \o << <<"Do NOT accept corrections from external sources. Re-examine the original image yourself.">>,
                       <<"">> >>
         IN SliceExtractionPrompt \o <<"\n\n">> \o Join(lines, "\n")

\* buildRetryPrompt for each of the two issue lists.
buildRetryPrompt_Call ==
    /\ rp.pc = "called"
    /\ rp' = [rp EXCEPT !.pc = "returned", !.promptA = buildRetryPrompt(rp.a),
                        !.promptB = buildRetryPrompt(rp.b)]
    /\ UNCHANGED <<pipeVars, ent, tabs, up, sl, pg, vf, nz, rg, sc>>

NextPrompt == buildRetryPrompt_Call

\* The issue lists of up to MaxIssues issues.
IssueLists == UNION {[1..n -> qaFieldIssue] : n \in 0..MaxIssues}

\* Lists to compare a list with: the same issues with other proposed and
\* extracted values, and the same issues with another field or another
\* severity in the last of them.
Variants(a) ==
    {[k \in DOMAIN a |-> [a[k] EXCEPT !.Expected = e, !.Extracted = x]] :
        e \in {"", "2024-02-15"}, x \in {"", "2024-01-15"}}
    \cup {[k \in DOMAIN a |-> IF k = Len(a) THEN [a[k] EXCEPT !.Field = "entryType"]
                              ELSE a[k]]}
    \cup {[k \in DOMAIN a |-> IF k = Len(a)
                              THEN [a[k] EXCEPT !.Severity =
                                       IF @ = "minor" THEN "critical" ELSE "minor"]
                              ELSE a[k]]}

InitPrompt ==
    /\ \E a \in IssueLists : \E b \in Variants(a) :
         rp = [pc |-> "called", a |-> a, b |-> b, promptA |-> <<>>, promptB |-> <<>>]
    /\ ent = NoEntry
    /\ tabs = NoTables
    /\ up = NoUpload
    /\ sl = NoSlicing
    /\ pg = NoPage
    /\ vf = NoVerify
    /\ nz = NoStrings
    /\ rg = NoRegions
    /\ sc = NoSecrets
    /\ req = [type |-> "multi_image", n |-> 1]
    /\ slicesOf = [p \in Pages |-> 1]
    /\ faults = 0
    /\ InitCommon

SpecPrompt == InitPrompt /\ [][NextPrompt]_vars

\* ------------------------------------------- normalize and fuzzyMatch alone

\* normalize applied to a and to its own result, and fuzzyMatch applied to
\* a and b in both orders.
fuzzyMatch_Call ==
    /\ nz.pc = "called"
    /\ nz' = [nz EXCEPT !.pc = "returned",
                        !.once = normalize(nz.a),
                        !.twice = normalize(normalize(nz.a)),
                        !.ab = fuzzyMatch(nz.a, nz.b),
                        !.ba = fuzzyMatch(nz.b, nz.a)]
    /\ UNCHANGED <<pipeVars, ent, tabs, up, sl, pg, vf, rp, rg, sc>>

NextStrings == fuzzyMatch_Call

\* Every string of up to MaxNameLen characters with every string that is
\* shorter than MaxNameLen.
InitStrings ==
    /\ nz \in [pc : {"called"}, a : Str(MaxNameLen), b : Str(MaxNameLen - 1),
               once : {<<>>}, twice : {<<>>}, ab : {FALSE}, ba : {FALSE}]
    /\ ent = NoEntry
    /\ tabs = NoTables
    /\ up = NoUpload
    /\ sl = NoSlicing
    /\ pg = NoPage
    /\ vf = NoVerify
    /\ rp = NoPrompt
    /\ rg = NoRegions
    /\ sc = NoSecrets
    /\ req = [type |-> "multi_image", n |-> 1]
    /\ slicesOf = [p \in Pages |-> 1]
    /\ faults = 0
    /\ InitCommon

SpecStrings == InitStrings /\ [][NextStrings]_vars

\* ------------------------------------------------------ region lists alone

\* absorbSmallRegions applied to the region list.
absorbSmallRegions_Call ==
    /\ rg.pc = "called"
    /\ rg' = [rg EXCEPT !.pc = "absorbed",
                        !.out = absorbSmallRegions(rg.regions, rg.min)]
    /\ UNCHANGED <<pipeVars, ent, tabs, up, sl, pg, vf, rp, nz, sc>>

\* mergeRegions applied to the region list.
mergeRegions_Call ==
    /\ rg.pc = "called"
    /\ rg' = [rg EXCEPT !.pc = "merged", !.out = mergeRegions(rg.regions, rg.min)]
    /\ UNCHANGED <<pipeVars, ent, tabs, up, sl, pg, vf, rp, nz, sc>>

NextRegions == absorbSmallRegions_Call \/ mergeRegions_Call

\* The regions of the list are not empty, in top-to-bottom order and pairwise
\* disjoint.
SortedDisjoint(regions) ==
    /\ \A i \in DOMAIN regions : regions[i][1] < regions[i][2]
    /\ \A i \in DOMAIN regions : i > 1 => regions[i - 1][2] <= regions[i][1]

\* The regions [start, end) within rows 0 .. n, the empty ones included,
\* and one whose end lies before its start.
Regions(n) ==
    {r \in (0..n) \X (0..n) : r[1] <= r[2] \/ r = <<n, 0>>}

\* The lists of up to MaxRegions regions in the upper rows, in any order,
\* overlapping or not, and the lists of up to MaxRegions regions within rows
\* 0 .. MaxRow as findRegions returns them.
RegionLists ==
    UNION {[1..n -> Regions(MaxRow - 3)] : n \in 0..MaxRegions}
    \cup {q \in UNION {[1..n -> Regions(MaxRow)] : n \in 0..MaxRegions} :
             SortedDisjoint(q)}

InitRegions ==
    /\ rg \in [pc : {"called"}, regions : RegionLists, min : (-1)..(MaxRow + 1),
               out : {<<>>}]
    /\ ent = NoEntry
    /\ tabs = NoTables
    /\ up = NoUpload
    /\ sl = NoSlicing
    /\ pg = NoPage
    /\ vf = NoVerify
    /\ rp = NoPrompt
    /\ nz = NoStrings
    /\ sc = NoSecrets
    /\ req = [type |-> "multi_image", n |-> 1]
    /\ slicesOf = [p \in Pages |-> 1]
    /\ faults = 0
    /\ InitCommon

SpecRegions == InitRegions /\ [][NextRegions]_vars

\* ------------------------------------------------------- secretsProvider

\* The goroutines that call GetSecret, the secret ARNs they ask for and the
\* values the secret store may hold for an ARN (a secret can be rotated).
Callers == 1..MaxCallers
ARNs == 1..MaxSecrets
SecretValues == {"s1", "s2"}

IdleCaller == [pc |-> "idle", arn |-> 0, late |-> FALSE, upstream |-> 0, val |-> "none",
               ret |-> "none"]

InProgress(c) == sc.caller[c].pc \in {"check", "fetch", "store", "return"}

\* A lookup that never finds the ARN in the cache.
cacheHit_Never(cache, arn) == FALSE

\* v, ok := s.cache[secretARN]
cacheHit(cache, arn) == cache[arn] # "none"

\* A goroutine calls GetSecret(ctx, arn).
GetSecret_Start(c, arn) ==
    /\ sc.pc = "run"
    /\ ~InProgress(c)
    /\ sc.started < MaxCalls
    /\ sc' = [sc EXCEPT !.started = @ + 1,
                        !.overlap = @ \/ \E d \in Callers \ {c} : InProgress(d),
                        !.caller[c] = [pc |-> "check", arn |-> arn,
                                       late |-> arn \in sc.succeeded, upstream |-> 0,
                                       val |-> "none", ret |-> "none"]]
    /\ UNCHANGED <<pipeVars, ent, tabs, up, sl, pg, vf, rp, nz, rg>>

\* With the mutex held: return the cached value if there is one.
GetSecret_Check(c) ==
    /\ sc.pc = "run"
    /\ sc.caller[c].pc = "check"
    /\ LET arn == sc.caller[c].arn
       IN sc' = IF cacheHit(sc.cache, arn)
                THEN [sc EXCEPT !.caller[c].pc = "returned",
                                !.caller[c].ret = sc.cache[arn],
                                !.succeeded = @ \cup {arn}]
                ELSE [sc EXCEPT !.caller[c].pc = "fetch"]
    /\ UNCHANGED <<pipeVars, ent, tabs, up, sl, pg, vf, rp, nz, rg>>

\* Without the mutex: GetSecretValue; its error is returned, wrapped.
GetSecret_Fetch(c) ==
    /\ sc.pc = "run"
    /\ sc.caller[c].pc = "fetch"
    /\ LET arn == sc.caller[c].arn
       IN \E out \in SecretValues \cup {"error"} :
           sc' = IF out = "error"
                 THEN [sc EXCEPT !.calls[arn] = @ + 1, !.failed[arn] = @ + 1,
                                 !.caller[c].upstream = @ + 1,
                                 !.caller[c].pc = "returned", !.caller[c].ret = "error"]
                 ELSE [sc EXCEPT !.calls[arn] = @ + 1,
                                 !.caller[c].upstream = @ + 1,
                                 !.caller[c].pc = "store", !.caller[c].val = out]
    /\ UNCHANGED <<pipeVars, ent, tabs, up, sl, pg, vf, rp, nz, rg>>

\* With the mutex held: s.cache[secretARN] = val.
GetSecret_Store(c) ==
    /\ sc.pc = "run"
    /\ sc.caller[c].pc = "store"
    /\ sc' = [sc EXCEPT !.cache[sc.caller[c].arn] = sc.caller[c].val,
                        !.caller[c].pc = "return"]
    /\ UNCHANGED <<pipeVars, ent, tabs, up, sl, pg, vf, rp, nz, rg>>

\* return val, nil
GetSecret_Return(c) ==
    /\ sc.pc = "run"
    /\ sc.caller[c].pc = "return"
    /\ sc' = [sc EXCEPT !.caller[c].pc = "returned", !.caller[c].ret = sc.caller[c].val,
                        !.succeeded = @ \cup {sc.caller[c].arn}]
    /\ UNCHANGED <<pipeVars, ent, tabs, up, sl, pg, vf, rp, nz, rg>>

NextSecrets ==
    \/ \E c \in Callers, arn \in ARNs : GetSecret_Start(c, arn)
    \/ \E c \in Callers : GetSecret_Check(c)
    \/ \E c \in Callers : GetSecret_Fetch(c)
    \/ \E c \in Callers : GetSecret_Store(c)
    \/ \E c \in Callers : GetSecret_Return(c)

\* NewSecretsProvider: an empty cache, no call yet.
InitSecrets ==
    /\ sc = [pc |-> "run", cache |-> [a \in ARNs |-> "none"], calls |-> [a \in ARNs |-> 0],
             failed |-> [a \in ARNs |-> 0], succeeded |-> {}, started |-> 0,
             overlap |-> FALSE, caller |-> [c \in Callers |-> IdleCaller]]
    /\ ent = NoEntry
    /\ tabs = NoTables
    /\ up = NoUpload
    /\ sl = NoSlicing
    /\ pg = NoPage
    /\ vf = NoVerify
    /\ rp = NoPrompt
    /\ nz = NoStrings
    /\ rg = NoRegions
    /\ req = [type |-> "multi_image", n |-> 1]
    /\ slicesOf = [p \in Pages |-> 1]
    /\ faults = 0
    /\ InitCommon

SpecSecrets == InitSecrets /\ [][NextSecrets]_vars

\* ------------------------------------------------------------------ claims

\* Nothing is left to run for the batch: every message sent was deleted or
\* dead-lettered, and neither Intake nor Split is in the middle of a handler.
Settled ==
    /\ \A m \in Slot : msgs[m].st \in {"free", "deleted", "dlq"}
    /\ intake.pc \notin {"start", "pages"}
    /\ split.pc = "idle"

AllPagesTerminal == \A p \in Pages : pages[p] # "absent" => pages[p] \in TerminalPage

\* Page p has been marked completed by some invocation.
WasCompleted(p) ==
    \E k \in 1..MaxMsgs : msgs[<<p, k>>].st \in {"marked", "counted", "deleted"}

\* C1: once nothing is left to run, a batch that has page rows is in a
\* terminal status if and only if every one of its page rows is completed,
\* skipped or failed.
C1_TerminalIffPagesTerminal ==
    (Settled /\ CountTotal > 0) =>
        ((batch.status \in TerminalBatch) <=> AllPagesTerminal)

\* C2: when one page's message was dead-lettered after failing on every
\* delivery and every other page completed, the batch has become
\* completed_with_errors by the time nothing is left to run.
C2_DeadLetteredPageCompletesWithErrors ==
    (/\ Settled
     /\ req.n > 1
     /\ \E p \in 1..req.n :
           /\ msgs[<<p, 1>>].st = "dlq"
           /\ pages[p] = "failed"
           /\ \A q \in (1..req.n) \ {p} :
                 msgs[<<q, 1>>].st = "deleted" /\ pages[q] = "completed")
    => batch.status = "completed_with_errors"

\* C3: for a PDF, at most one Analyze message is sent per page number,
\* counting the PDF path and the page-arrival path together, and exactly one
\* once Split has returned success.
C3_OneMessagePerPage ==
    req.type = "pdf" =>
        /\ \A p \in Pages : Sent(p) <= 1
        /\ split.ret = "ok" => \A p \in 1..req.n : Sent(p) = 1

\* C4: every dated entry extracted from a page has at most one
\* maintenance_entries row, however often the page's message is delivered.
C4_ExactlyOnceEntries ==
    \A p \in Pages, s \in SliceIdx : rows[p][s] <= 1

\* C5: no step sets a batch whose status is completed, completed_with_errors
\* or failed back to processing.
C5_TerminalNeverBackToProcessing ==
    [][batch.status \in TerminalBatch => batch'.status # "processing"]_vars

\* C6: with no failure injected, a PDF batch is completed only after every
\* one of its rasterized pages has been marked completed.
C6_CompletedOnlyAfterAllPages ==
    (req.type = "pdf" /\ faults = MaxFaults /\ batch.status = "completed") =>
        \A p \in 1..req.n : WasCompleted(p)

\* C7: once Intake and Split have returned, a page_count that is set equals
\* the number of upload_pages rows of the batch.
C7_PageCountEqualsRows ==
    (batch.page_count # <<>> /\ intake.pc \notin {"start", "pages"} /\ split.pc = "idle") =>
        batch.page_count[1] = CountTotal

\* C8: whenever the PDF path of Split has returned an error, that invocation
\* has called markFailed on the batch.
C8_SplitErrorMarksFailed ==
    (split.pc = "idle" /\ split.ret = "error") => split.marked

\* C9: when marking the page processing, downloading the image or storing
\* the raw extraction fails, the page is marked failed (if that statement
\* succeeds), no entry is saved, and the message goes back to the queue, or
\* to the dead-letter queue once received maxReceiveCount times.
C9_StepFailureMarksFailedAndRetries ==
    lastRun.err \in {"mark processing", "download image", "store extraction"} =>
        /\ lastRun.markOk => pages[lastRun.page] = "failed"
        /\ rows[lastRun.page] = lastRun.before
        /\ msgs[lastRun.slot].st =
              (IF lastRun.rc < MaxReceiveCount THEN "queued" ELSE "dlq")

C9_Witness ==
    /\ lastRun.err = "store extraction"
    /\ lastRun.markOk
    /\ pages[lastRun.page] = "failed"
    /\ msgs[lastRun.slot].st = "queued"

\* The slices of the last run on which the model failed.
BadSlices == {s \in DOMAIN lastRun.outs : lastRun.outs[s] \in {"error", "empty", "unparseable"}}

\* C10: when the model fails on some slices and no infrastructure call of
\* processPage fails, the page ends completed, the failing slices add no
\* entry, and every other slice with a dated entry has its entry inserted.
C10_SliceFailureNeverFailsPage ==
    (lastRun.err = "" /\ BadSlices # {}) =>
        /\ pages[lastRun.page] = "completed"
        /\ \A s \in DOMAIN lastRun.outs :
              rows[lastRun.page][s] = lastRun.before[s] +
                 (IF lastRun.outs[s] = "ok" /\ s \notin lastRun.insFail THEN 1 ELSE 0)

C10_Witness ==
    /\ lastRun.err = ""
    /\ lastRun.outs = <<"error", "ok">>
    /\ pages[lastRun.page] = "completed"
    /\ rows[lastRun.page] = <<0, 1>>

\* The elements of a sequence.
Range(q) == {q[i] : i \in DOMAIN q}

\* The rows of a child table that belong to entry id.
RowsOf(table, id) == {i \in DOMAIN table : table[i].entry_id = id}

\* C11: after saveEntry has run on an entry whose date is empty, no table
\* has a row: no maintenance_entries row and no parts, AD-compliance,
\* inspection or embedding row.
C11_NoDateNoRows ==
    (ent.pc = "saved" /\ ent.in.date = "") => tabs = NoTables

C11_Witness ==
    /\ ent.pc = "saved"
    /\ ent.in.date = ""
    /\ ent.in.narrative > MinNarrative
    /\ ent.in.parts > 0
    /\ ent.in.ad # <<>>
    /\ ent.in.inspectionType # ""
    /\ tabs = NoTables

Mismatch(e, x) ==
    \/ normalize(e.serial) # normalize(x.serialNumber)
    \/ (~fuzzyMatch(e.make, x.make) /\ ~fuzzyMatch(e.model, x.model))

\* The entry carries the three marks of a flagged entry, added to what it had.
Flagged(before, after) ==
    /\ after.needsReview
    /\ after.missingData = Append(before.missingData, "aircraft_identity_mismatch")
    /\ Len(after.notes) = Len(before.notes) + 1
    /\ after.notes[Len(after.notes)].mismatch # <<>>

\* C13: with both serials non-empty, the identity check flags the entry if
\* and only if the normalized serials differ or both make and model fail to
\* match; otherwise, and whenever either serial is empty, the entry is
\* left unchanged.
C13_FlaggedIffMismatch ==
    ent.pc = "checked" =>
        IF ent.in.serial # <<>> /\ ent.expected.serialNumber # <<>> /\
           Mismatch(ent.in, ent.expected)
        THEN Flagged(ent.in, ent.entry)
        ELSE ent.entry = ent.in

C13_Witness ==
    /\ ent.pc = "checked"
    /\ ent.in.serial # <<>>
    /\ normalize(ent.in.serial) = normalize(ent.expected.serialNumber)
    /\ ent.in.make # <<>>
    /\ ent.in.model # <<>>
    /\ Flagged(ent.in, ent.entry)

\* C14: when the identity check flagged an entry that has a date and the
\* entry was persisted, its row has needs_review, missing_data containing
\* aircraft_identity_mismatch, and extraction_notes containing the note.
C14_FlagsPersisted ==
    (/\ ent.pc = "saved"
     /\ Flagged(ent.in, ent.entry)
     /\ ent.in.date # ""
     /\ ent.err = "")
    => \E i \in DOMAIN tabs.entries :
          /\ tabs.entries[i].needs_review
          /\ "aircraft_identity_mismatch" \in Range(tabs.entries[i].missing_data)
          /\ ent.entry.notes[Len(ent.entry.notes)] \in Range(tabs.entries[i].extraction_notes)

\* The claim's table of legacy entry types and the inspection_type each is
\* written with.
LegacyWrittenAs(t) ==
    CASE t = "annual" -> "annual"
      [] t = "100hr" -> "100hr"
      [] t = "progressive" -> "progressive"
      [] t = "altimeter_check" -> "altimeter_static"
      [] t = "transponder_check" -> "transponder"

LegacyTypes == {"annual", "100hr", "progressive", "altimeter_check", "transponder_check"}

\* C15: every persisted entry_type is maintenance, inspection,
\* ad_compliance or other; an entry extracted with a legacy type is
\* persisted as inspection, and its inspection row has the inspection_type
\* the legacy type stands for.
C15_EntryTypeNormalized ==
    ent.pc = "saved" =>
        \A i \in DOMAIN tabs.entries :
            /\ tabs.entries[i].entry_type \in
                  {"maintenance", "inspection", "ad_compliance", "other"}
            /\ ent.in.entryType \in LegacyTypes =>
                  /\ tabs.entries[i].entry_type = "inspection"
                  /\ ent.entry.inspectionType = LegacyWrittenAs(ent.in.entryType)
                  /\ \A j \in RowsOf(tabs.inspections, tabs.entries[i].id) :
                        tabs.inspections[j].inspection_type =
                           LegacyWrittenAs(ent.in.entryType)

C15_Witness ==
    /\ ent.pc = "saved"
    /\ ent.in.entryType = "altimeter_check"
    /\ ent.in.inspectionType = "annual"
    /\ Len(tabs.entries) = 1
    /\ tabs.entries[1].entry_type = "inspection"
    /\ Len(tabs.inspections) = 1
    /\ tabs.inspections[1].inspection_type = "altimeter_static"

UnknownExtension(f) == ToLower(Ext(f.filename)) \notin pdfExtensions \cup imageExtensions

\* C17: a request that holds a file whose extension is neither .pdf nor a
\* listed image extension is answered with a 4xx and creates no batch (no
\* call of the handler failing).
C17_UnknownExtensionRejected ==
    (/\ up.pc = "returned"
     /\ up.req.json
     /\ up.fail.at = "none"
     /\ \E i \in DOMAIN up.req.files : UnknownExtension(up.req.files[i]))
        => /\ up.resp.code \in 400..499
           /\ up.db.batches = <<>>

\* Every file of the request carries an image extension.
AllImages(files) ==
    \A i \in DOMAIN files : ToLower(Ext(files[i].filename)) \in imageExtensions

\* i written with four decimal digits.
FourDigits(i) == [k \in 1..4 |-> DigitChar[((i \div (10 ^ (4 - k))) % 10) + 1]]

\* The request was answered 200 as a multi-image upload and all its files are images.
MultiImageDone ==
    /\ up.pc = "returned"
    /\ up.resp.code = 200
    /\ up.resp.body = "multi_image"
    /\ AllImages(up.req.files)

\* C18: a successful multi-image upload of N files leaves one batch, pending,
\* with page_count N, and exactly N page rows, pending, numbered 1..N, the
\* i-th with the key pages/<batchId>/page_<i in 4 digits><lower-cased
\* extension of the i-th file>.
C18_MultiImageUploadRows ==
    MultiImageDone =>
        LET N == Len(up.req.files)
            b == up.db.batches[1]
        IN /\ Len(up.db.batches) = 1
           /\ b.processing_status = "pending"
           /\ b.page_count = <<N>>
           /\ Len(up.db.upload_pages) = N
           /\ \A i \in 1..N :
                LET row == up.db.upload_pages[i]
                IN /\ row.document_id = b.id
                   /\ row.page_number = i
                   /\ row.extraction_status = "pending"
                   /\ row.image_path = <<"pages/", b.id, "/page_">> \o FourDigits(i)
                                           \o ToLower(Ext(up.req.files[i].filename))

\* Two images uploaded at once, an upper-case extension among them, and the
\* two extensions different.
C18_Witness ==
    /\ MultiImageDone
    /\ Len(up.req.files) >= 2
    /\ Ext(up.req.files[1].filename) = <<".JPG">>
    /\ Ext(up.req.files[2].filename) = <<".png">>
    /\ up.db.upload_pages[2].image_path = <<"pages/", "batch-1", "/page_", "0", "0", "0", "2", ".png">>

\* The slicer has returned slices for an image that decodes.
Sliced_Ok == sl.pc = "returned" /\ sl.err = ""

\* C19: each slice SliceImage returns satisfies 0 <= Y0 < Y1 <= height of
\* the image, whatever the options.
C19_SliceBounds ==
    Sliced_Ok =>
        \A k \in DOMAIN sl.slices :
            /\ 0 <= sl.slices[k].Y0
            /\ sl.slices[k].Y0 < sl.slices[k].Y1
            /\ sl.slices[k].Y1 <= Len(sl.img.ink)

\* None of the spatial options is negative.
PlainOptions ==
    /\ sl.opts.DilationRadius >= 0
    /\ sl.opts.MinGapHeight >= 0
    /\ sl.opts.MinSliceHeight >= 0
    /\ sl.opts.Padding >= 0

\* C20: when SliceImage returns exactly one slice, the slice is the whole
\* image: Y0 = 0 and Y1 = height (stated for options without a negative value).
C20_SingleSliceIsWholeImage ==
    (Sliced_Ok /\ Len(sl.slices) = 1 /\ PlainOptions) =>
        /\ sl.slices[1].Y0 = 0
        /\ sl.slices[1].Y1 = Len(sl.img.ink)

\* The slicer has returned for an image that decodes.
Sliced_Decoded == sl.pc = "returned" /\ sl.img.decodes

C22_OrderedDenseIndex ==
    Sliced_Ok =>
        \A k \in DOMAIN sl.slices :
            /\ sl.slices[k].Index = k - 1
            /\ k > 1 => sl.slices[k - 1].Y0 < sl.slices[k].Y0

\* C22, amended: the k-th slice has Index k, counted from 0, also when
\* regions were skipped; Y0 never decreases, two slices have the same Y0 only
\* if the padding pushed both to row 0, and never with the default options.
C22_OrderedDenseIndexUpToClamp ==
    Sliced_Ok =>
        \A k \in DOMAIN sl.slices :
            /\ sl.slices[k].Index = k - 1
            /\ k > 1 =>
                 /\ sl.slices[k - 1].Y0 <= sl.slices[k].Y0
                 /\ sl.slices[k - 1].Y0 = sl.slices[k].Y0 =>
                        (sl.slices[k].Y0 = 0 /\ sl.opts # DefaultOptions)

\* Three regions, the middle one skipped for being too short, two slices left.
C22_Witness ==
    /\ Sliced_Ok
    /\ Len(sl.regions) = 3
    /\ Len(sl.slices) = 2
    /\ PlainOptions
    /\ sl.slices[1].Y1 <= sl.regions[2][1]
    /\ sl.slices[2].Y0 >= sl.regions[2][2]

\* processPage has returned for a page image on which the slicer returns an
\* error, and none of its own calls failed.
SlicerFailed ==
    /\ pg.pc = "returned"
    /\ pg.err = ""
    /\ SliceImage(pg.img, DefaultOptions).err # ""

\* C23: when the slicer returns an error for the page image, exactly one
\* extraction call is made, with the bytes as downloaded and the MIME type
\* of the page's key, and the page is completed, not failed, whatever the
\* extraction model answers.
C23_SlicerFallback ==
    SlicerFailed =>
        /\ Len(pg.calls) = 1
        /\ pg.calls[1].data = OriginalBytes
        /\ pg.calls[1].mime = mimeTypeOf(pg.key)
        /\ pg.status = "completed"

\* A PNG page that does not decode, sent on as image/png; the one
\* extraction call fails.
C23_Witness ==
    /\ SlicerFailed
    /\ ~pg.img.decodes
    /\ Ext(pg.key) = <<".png">>
    /\ pg.calls = <<[data |-> OriginalBytes, mime |-> "image/png"]>>
    /\ pg.outs = <<"error">>

\* The verification model has judged the second extraction of the slice and
\* still fails an entry with a critical issue.
SecondAttemptFailed ==
    /\ vf.pc # "none"
    /\ vf.extractCalls = 2
    /\ vf.verified
    /\ wantsRetry(vf.verdicts)

\* C24: for a slice the extract-and-verify loop calls the extraction model at
\* most twice; when the verdict on the second extraction is still fail with a
\* critical issue the loop returns, and the entries so judged are those of the
\* second extraction with needs_review set.
C24_AtMostTwoExtractions ==
    vf.pc # "none" =>
        /\ vf.extractCalls <= 2
        /\ SecondAttemptFailed =>
             /\ vf.pc = "returned"
             /\ \A k \in DOMAIN vf.entries :
                  vf.verdicts[k].verdict = "fail" /\ vf.verdicts[k].critical
                      => vf.entries[k].NeedsReview /\ vf.entries[k].attempt = 2

C24_Witness ==
    /\ SecondAttemptFailed
    /\ vf.pc = "returned"
    /\ vf.prompts = <<"base", "retry">>

\* Both verification models failed on the extraction at hand.
VerificationFailed ==
    /\ vf.pc # "none"
    /\ vf.qa.preferred # "ok"
    /\ vf.qa.secondary = "error"

\* C25: when the preferred verification model fails the extraction model is
\* asked to verify; when that fails too the loop returns the extraction as it
\* is, every entry of it with needs_review unset.
C25_VerifierFallback ==
    vf.pc # "none" =>
        /\ vf.qa.preferred = "error" => vf.qa.secondary \in {"ok", "error"}
        /\ VerificationFailed =>
             /\ vf.pc = "returned"
             /\ ~vf.verified
             /\ vf.entries = extracted(Len(vf.entries), vf.attempt)

C25_Witness ==
    /\ VerificationFailed
    /\ vf.qa.preferred = "error"
    /\ Len(vf.entries) > 0
    /\ vf.attempt = 2

\* The two issue lists name the same fields, issue kinds and severities in
\* the same order.
SameButValues ==
    /\ Len(rp.a) = Len(rp.b)
    /\ \A k \in DOMAIN rp.a :
         /\ rp.a[k].Field = rp.b[k].Field
         /\ rp.a[k].Issue = rp.b[k].Issue
         /\ rp.a[k].Severity = rp.b[k].Severity

\* C26: two issue lists that differ only in the expected or extracted values
\* of their issues give the same retry prompt.
C26_PromptIgnoresValues ==
    rp.pc = "returned" /\ SameButValues => rp.promptA = rp.promptB

C26_Witness ==
    /\ rp.pc = "returned"
    /\ SameButValues
    /\ Len(rp.a) = 2
    /\ rp.a[1].Expected # rp.b[1].Expected
    /\ rp.a[2].Extracted # rp.b[2].Extracted
    /\ rp.promptA = rp.promptB

\* C27: normalize is idempotent: applied to its own result it returns that
\* result, whatever hyphens, spaces and other whitespace the string holds.
C27_NormalizeIdempotent ==
    nz.pc = "returned" => nz.twice = nz.once

\* C28: fuzzyMatch is symmetric: it holds of a and b exactly when it holds of
\* b and a.
C28_FuzzyMatchSymmetric ==
    nz.pc = "returned" => (nz.ab <=> nz.ba)

C28_Witness ==
    /\ nz.pc = "returned"
    /\ nz.ab
    /\ nz.ba
    /\ normalize(nz.a) # <<>>
    /\ normalize(nz.b) # <<>>
    /\ Len(normalize(nz.a)) > Len(normalize(nz.b))

\* Message m's invocation ran the count query of checkBatchCompletion in
\* this step.
Counted(m) == msgs[m].st = "marked" /\ msgs'[m].st # "marked"

\* Message m's invocation left checkBatchCompletion after a count that
\* called for a write in this step.
Wrote(m) == msgs[m].st = "counted" /\ msgs'[m].st # "counted"

\* C29: checkBatchCompletion changes the batch status only after it counted
\* total > 0 pages with done + failed = total, and then to completed if
\* failed = 0, to failed if done = 0 and to completed_with_errors otherwise;
\* a count that does not add up, fails or returns no row leaves the batch
\* status as it is.
C29_CompletionWrite ==
    [][\A m \in Slot :
         /\ Counted(m) =>
              /\ batch' = batch
              /\ msgs'[m].st = "counted" =>
                   /\ CountTotal > 0
                   /\ CountDone + CountFailed = CountTotal
                   /\ msgs'[m].write = (IF CountFailed = 0 THEN "completed"
                                        ELSE IF CountDone = 0 THEN "failed"
                                        ELSE "completed_with_errors")
              /\ msgs'[m].st # "counted" =>
                   \/ faults' < faults
                   \/ CountDone + CountFailed # CountTotal
         /\ Wrote(m) => batch'.status \in {batch.status, msgs[m].write}
         /\ (msgs[m].st \in {"marked", "counted"} /\ batch'.status # batch.status)
              => Wrote(m) \/ \E o \in Slot : o # m /\ Wrote(o)]_vars

C29_Witness ==
    /\ batch.status = "completed_with_errors"
    /\ \E p \in Pages : pages[p] = "failed"
    /\ \E m \in Slot : msgs[m].st = "deleted" /\ pages[PageOf(m)] = "completed"

\* The invocations that have counted the pages of the batch and are about to
\* write its status.
Writers == {m \in Slot : msgs[m].st = "counted"}

\* C30: the invocations that are about to write the batch status at the same
\* time are all about to write the same value.
C30_SameWrite ==
    \A m, o \in Writers : msgs[m].write = msgs[o].write

\* The entries of the last run that the model returned with a date and whose
\* insert did not fail.
Insertable ==
    {s \in DOMAIN lastRun.outs : lastRun.outs[s] = "ok" /\ s \notin lastRun.insFail}

\* C31: when the insert of an entry's maintenance_entries row fails and no
\* other call of processPage does, every other dated entry of the page is
\* inserted, once and in extraction order, the ones after the failing entry
\* included, and the page ends completed.
C31_InsertFailureContinues ==
    (lastRun.err = "" /\ lastRun.insFail # {}) =>
        /\ pages[lastRun.page] = "completed"
        /\ {lastRun.saved[k] : k \in DOMAIN lastRun.saved} = Insertable
        /\ \A j, k \in DOMAIN lastRun.saved : j < k => lastRun.saved[j] < lastRun.saved[k]
        /\ \A s \in DOMAIN lastRun.outs :
             rows[lastRun.page][s] = lastRun.before[s] + (IF s \in Insertable THEN 1 ELSE 0)

C31_Witness ==
    /\ lastRun.err = ""
    /\ lastRun.outs = <<"ok", "ok">>
    /\ lastRun.insFail = {1}
    /\ lastRun.saved = <<2>>
    /\ pages[lastRun.page] = "completed"
    /\ rows[lastRun.page] = <<0, 1>>

\* C32: whatever the region list and the minimum height, absorbSmallRegions
\* returns a list of at most one region or a list in which every region is
\* at least the minimum height high.
C32_AbsorbedOrSingle ==
    rg.pc = "absorbed" =>
        \/ Len(rg.out) <= 1
        \/ \A i \in DOMAIN rg.out : rg.out[i][2] - rg.out[i][1] >= rg.min

C32_Witness ==
    /\ rg.pc = "absorbed"
    /\ Len(rg.regions) = 3
    /\ Len(rg.out) = 2
    /\ \E i \in DOMAIN rg.regions : rg.regions[i][2] - rg.regions[i][1] < rg.min
    /\ \A i \in DOMAIN rg.out : rg.out[i][2] - rg.out[i][1] >= rg.min

\* The rows a region list covers.
RowsCovered(regions) ==
    {y \in 0..MaxRow : \E i \in DOMAIN regions : regions[i][1] <= y /\ y < regions[i][2]}

\* C36: given non-empty regions in top-to-bottom order and pairwise disjoint,
\* mergeRegions and absorbSmallRegions each return such a list again, which
\* begins where the first region begins, ends where the last region ends and
\* covers every row the given list covers.
C36_RegionsStayOrdered ==
    (rg.pc \in {"absorbed", "merged"} /\ SortedDisjoint(rg.regions)) =>
        /\ SortedDisjoint(rg.out)
        /\ Len(rg.regions) = 0 => Len(rg.out) = 0
        /\ Len(rg.regions) > 0 =>
             /\ Len(rg.out) > 0
             /\ rg.out[1][1] = rg.regions[1][1]
             /\ rg.out[Len(rg.out)][2] = rg.regions[Len(rg.regions)][2]
        /\ RowsCovered(rg.regions) \subseteq RowsCovered(rg.out)

\* Three regions of which some were joined across the gap between them.
Joined ==
    /\ SortedDisjoint(rg.regions)
    /\ Len(rg.regions) = 3
    /\ Len(rg.out) < 3
    /\ RowsCovered(rg.out) # RowsCovered(rg.regions)

C36_Witness ==
    /\ rg.pc = "absorbed"
    /\ Joined
    /\ rg.regions[2][1] - rg.regions[1][2] # rg.regions[3][1] - rg.regions[2][2]

\* The whole image as the only slice.
WholeImage == <<[Index |-> 0, Y0 |-> 0, Y1 |-> Len(sl.img.ink)]>>

\* The minimum slice height of the options at the scale of the image.
ScaledMinSliceHeight ==
    LET m == sl.opts.MinSliceHeight
        height == Len(sl.img.ink)
        s == GoDiv(m * height, referenceHeight)
    IN IF height <= 0 \/ height = referenceHeight THEN m
       ELSE IF s < 1 /\ m > 0 THEN 1 ELSE s

C34_NoRowSkips ==
    [][(evPage' # evPage /\ arrival'.rows = 0) =>
          /\ msgs' = msgs
          /\ batch' = batch
          /\ ~arrival'.sent
          /\ arrival'.ret \in {"ok", "query page"}]_vars

\* A rasterized page image arrived before Split inserted its row: the arrival
\* was skipped with success, and the PDF path queued the page afterwards.
C34_Witness ==
    /\ req.type = "pdf"
    /\ arrival.page = 1
    /\ arrival.rows = 0
    /\ arrival.ret = "ok"
    /\ pages[1] # "absent"
    /\ \E m \in Slot : PageOf(m) = 1 /\ msgs[m].st # "free"

\* The rows SliceImage classifies as content: those whose smoothed profile,
\* computed with the scaled options, is above the content threshold.
ContentRows ==
    LET height == Len(sl.img.ink)
        smoothed == smoothedOf(sl.img, scaleToHeight(sl.opts, height))
    IN {y \in 0..(height - 1) : smoothed[y + 1] > sl.img.width \div 100}

InSomeSlice(y) == \E k \in DOMAIN sl.slices : sl.slices[k].Y0 <= y /\ y < sl.slices[k].Y1

\* C35: with the default options, every row classified as content lies inside
\* [Y0, Y1) of at least one slice SliceImage returns.
C35_ContentCovered ==
    (Sliced_Ok /\ sl.opts = DefaultOptions) => \A y \in ContentRows : InSomeSlice(y)

\* A page cut into several slices with the default options, with content
\* rows and with blank rows that no slice holds.
C35_Witness ==
    /\ Sliced_Ok
    /\ sl.opts = DefaultOptions
    /\ Len(sl.slices) >= 2
    /\ ContentRows # {}
    /\ \E y \in 0..(Len(sl.img.ink) - 1) : ~InSomeSlice(y)

\* C37: a GetSecret call that starts after a call for the same ARN has
\* succeeded makes no call to the secret store and returns a value (the cached one);
\* while calls never overlap, an ARN that a call has succeeded for has had
\* exactly one successful upstream call; and a fetch that fails leaves the
\* cache as it was.
C37_CachedAfterSuccess ==
    /\ [](sc.pc = "run" =>
           /\ \A c \in Callers :
                 sc.caller[c].late =>
                    /\ sc.caller[c].pc \in {"check", "returned"}
                    /\ sc.caller[c].upstream = 0
                    /\ sc.caller[c].pc = "returned" => sc.caller[c].ret \in SecretValues
           /\ ~sc.overlap =>
                 \A a \in sc.succeeded : sc.calls[a] - sc.failed[a] = 1)
    /\ [][\A c \in Callers :
            (sc.pc = "run" /\ sc.caller[c].pc = "fetch" /\ sc'.caller[c].ret = "error")
               => sc'.cache = sc.cache]_vars

\* After a fetch for an ARN failed and a later one succeeded, a further call
\* for that ARN has returned the cached value without an upstream call.
C37_Witness ==
    /\ sc.pc = "run"
    /\ ~sc.overlap
    /\ \E c \in Callers :
          /\ sc.caller[c].late
          /\ sc.caller[c].pc = "returned"
          /\ sc.caller[c].ret \in SecretValues
          /\ sc.failed[sc.caller[c].arn] = 1
          /\ sc.calls[sc.caller[c].arn] = 2

====
